---- MODULE Spec2Model ----
(***************************************************************************)
(* AUBus matching-and-notification server: backend/server.py and the parts *)
(* of backend/db_api.py it calls.  The presence registry is the three      *)
(* module-level dictionaries of server.py, the store is the users and      *)
(* rides tables of db_api.py, and every connection is served by its own    *)
(* handle_client thread; create_ride starts one more thread per ride for   *)
(* notify_matched_drivers.  The dictionaries are shared without a lock, so *)
(* a handler is split where it touches them more than once.                *)
(***************************************************************************)
EXTENDS Integers, Sequences, FiniteSets, TLC

(***************************************************************************)
(* Bounds and input domains                                                *)
(***************************************************************************)
MaxRides == 2

\* The request lines the server reads in one run, over all connections
MaxRequests == 5

\* The rows the ratings table takes in one run
MaxRatings == 3

\* The send() calls one sendall may need for a line
MaxSends == 2

\* The calls of _send_and_wait one client thread makes
MaxCalls == 2

Conns == {"c1", "c2", "c3"}
Names == {"d1", "d2", "p1"}
Areas == {"Hamra", "Verdun"}
Passwords == {"pw", "bad"}
None == "None"

(***************************************************************************)
(* Python dictionaries: a function whose DOMAIN is the set of keys         *)
(***************************************************************************)
EmptyDict == [k \in {} |-> None]

\* (a variant that keeps the value of a key that is already there)
DictSetDefault(d, k, v) == [x \in (DOMAIN d) \cup {k} |-> IF x \in DOMAIN d THEN d[x] ELSE v]

\* d[k] = v
DictPut(d, k, v) == [x \in (DOMAIN d) \cup {k} |-> IF x = k THEN v ELSE d[x]]

\* (a variant that leaves the key in)
DictKeep(d, k) == d

\* d.pop(k, None)
DictPop(d, k) == [x \in (DOMAIN d) \ {k} |-> d[x]]

DictGet(d, k, default) == IF k \in DOMAIN d THEN d[k] ELSE default

(***************************************************************************)
(* db_api.time_to_seconds.  A time string is modelled by the format it is  *)
(* written in and the numbers in it: "HM" is 'HH:MM', "HMS" is 'HH:MM:SS', *)
(* "AM"/"PM" is 'H:MM AM' / 'H:MMPM', "int" is a bare integer (in s), and  *)
(* "bad" is any text no format parses.  strptime rejects out-of-range      *)
(* fields, so such a string falls through to int() and raises.             *)
(***************************************************************************)
TimeError == -1

TimeStr(kind, h, m, s) == [kind |-> kind, h |-> h, m |-> m, s |-> s]

time_to_seconds(t) ==
    CASE t.kind = "HM" /\ t.h \in 0..23 /\ t.m \in 0..59 ->
            t.h * 3600 + t.m * 60
      [] t.kind = "HMS" /\ t.h \in 0..23 /\ t.m \in 0..59 /\ t.s \in 0..59 ->
            t.h * 3600 + t.m * 60 + t.s
      [] t.kind = "AM" /\ t.h \in 1..12 /\ t.m \in 0..59 ->
            (t.h % 12) * 3600 + t.m * 60
      [] t.kind = "PM" /\ t.h \in 1..12 /\ t.m \in 0..59 ->
            ((t.h % 12) + 12) * 3600 + t.m * 60
      [] t.kind = "int" /\ t.s >= 0 -> t.s
      [] OTHER -> TimeError

(***************************************************************************)
(* db_api.weekday_to_int: lower-case the key, then look the name up        *)
(***************************************************************************)
Lower(name) ==
    CASE name = "Monday" -> "monday"
      [] name = "monday" -> "monday"
      [] name = "Tuesday" -> "tuesday"
      [] name = "Funday" -> "funday"
      [] OTHER -> name

\* mapping[...] raises KeyError for a name that is no weekday
WeekdayError == -1

weekday_to_int(name) ==
    CASE Lower(name) = "monday" -> 0
      [] Lower(name) = "tuesday" -> 1
      [] OTHER -> WeekdayError

(***************************************************************************)
(* The match window of get_available_drivers                               *)
(***************************************************************************)
WindowSeconds == 600
LastSecond == 86399

Max(a, b) == IF a >= b THEN a ELSE b
Min(a, b) == IF a <= b THEN a ELSE b

WindowLower(target_seconds) == Max(0, target_seconds - WindowSeconds)
\* (a variant whose upper edge is not part of the window)
WindowUpperOpen(target_seconds) == Min(LastSecond, target_seconds + WindowSeconds) - 1

WindowUpper(target_seconds) == Min(LastSecond, target_seconds + WindowSeconds)

(***************************************************************************)
(* A weekly_schedule is the item list of the stored JSON object: a         *)
(* sequence of [day, time] with distinct day keys.  A stored text that is  *)
(* no JSON is the one item whose day is NotJson.                           *)
(***************************************************************************)
NotJson == "not json"

T0800 == TimeStr("HM", 8, 0, 0)
T0805 == TimeStr("AM", 8, 5, 0)
T0820 == TimeStr("HMS", 8, 20, 0)
TBad == TimeStr("bad", 0, 0, 0)

SchedItem(day, time) == [day |-> day, time |-> time]

SchedMon == << SchedItem("Monday", T0800) >>
SchedMonTwice == << SchedItem("Monday", T0800), SchedItem("monday", T0805) >>
SchedTue == << SchedItem("Tuesday", T0800) >>
SchedBadTime == << SchedItem("Monday", TBad) >>
SchedEmpty == << >>
SchedBadDay == << SchedItem("Funday", T0800) >>
SchedNotJson == << SchedItem(NotJson, TBad) >>

\* json.loads(sched_json) raises
json_loads_raises(schedule) ==
    schedule # << >> /\ Head(schedule).day = NotJson

\* "for day, timestr in schedule.items(): if weekday_to_int(day) == weekday"
\* lets the exception of json.loads and of weekday_to_int out
schedule_raises(schedule) ==
    \/ json_loads_raises(schedule)
    \/ \E i \in 1..Len(schedule) : weekday_to_int(schedule[i].day) = WeekdayError

\* get_available_drivers raises when a driver of the area has such a
\* schedule
DriversRaise(rows, area) ==
    \E i \in 1..Len(rows) :
        /\ rows[i].role = "driver"
        /\ rows[i].area = area
        /\ schedule_raises(rows[i].weekly_schedule)

\* The usernames one schedule contributes: one per item on the weekday
\* whose time parses and lies in the window.
RECURSIVE ScheduleHits(_, _, _, _)
ScheduleHits(username, schedule, weekday, target_seconds) ==
    IF schedule = << >> THEN << >>
    ELSE LET item == Head(schedule)
             sec == time_to_seconds(item.time)
             hit == /\ weekday_to_int(item.day) = weekday
                    /\ sec # TimeError
                    /\ WindowLower(target_seconds) <= sec
                    /\ sec <= WindowUpper(target_seconds)
         IN  (IF hit THEN << username >> ELSE << >>)
                \o ScheduleHits(username, Tail(schedule), weekday, target_seconds)

\* db_api.get_available_drivers over the rows of the users table
RECURSIVE DriversGood(_, _, _, _)
DriversGood(rows, area, weekday, target_seconds) ==
    IF rows = << >> THEN << >>
    ELSE LET row == Head(rows)
         IN  (IF row.role = "driver" /\ row.area = area
                THEN ScheduleHits(row.username, row.weekly_schedule,
                                  weekday, target_seconds)
                ELSE << >>)
                \o DriversGood(Tail(rows), area, weekday, target_seconds)

Range(s) == {s[i] : i \in 1..Len(s)}


(***************************************************************************)
(* State                                                                   *)
(***************************************************************************)
VARIABLES
    users,                \* rows of the users table, in insertion order
    rides,                \* rows of the rides table; a row's id is its index
    scheduled_rides,      \* rows of the scheduled_rides table, likewise
    connected_drivers,    \* server.connected_drivers: username -> socket
    connected_passengers, \* server.connected_passengers: username -> socket
    driver_status,        \* server.driver_status: username -> status
    conn_state,           \* per connection: "connected", "draining", "closed"
    close_cause,          \* per connection: why handle_client left its loop
    pc,                   \* per connection: where its handler stands
    local,                \* per connection: the locals of the request in flight
    response,             \* the last response a handler wrote, and to whom
    notifier,             \* per ride: the notify_matched_drivers thread
    pushes,               \* how often each push was handed to safe_send
    accept_ok,            \* every accept_ride call the store answered True
    requests,             \* how many request lines were dispatched so far
    answered,             \* how many responses were written so far
    ratings,              \* rows of the ratings table, in insertion order
    wire,                 \* per socket: the bytes the server wrote, in order
    client,               \* the fields of the RealtimeClient object
    caller,               \* per client thread: where its _send_and_wait stands
    link                  \* the client's socket: lines in flight, each way

vars == << users, rides, scheduled_rides, connected_drivers,
           connected_passengers, driver_status, conn_state, close_cause, pc,
           local, response, notifier, pushes, accept_ok, requests, answered,
           ratings, wire, client, caller, link >>

client_side == << client, caller, link >>

presence == << connected_drivers, connected_passengers, driver_status >>
store == << users, rides >>

NoLocal == [action |-> None]
NoResponse ==
    [conn |-> None, re |-> None, status |-> None, ride_id |-> 0,
     rq |-> NoLocal]

\* A response object, tagged with the action it answers (re) and, for a
\* create_ride, with the request (rq); ride_id is 0 in a response that is
\* about no ride.
RqResp(re, status, ride_id, rq) ==
    [re |-> re, status |-> status, ride_id |-> ride_id, rq |-> rq]

RideResp(re, status, ride_id) == RqResp(re, status, ride_id, NoLocal)

Resp(re, status) == RideResp(re, status, 0)

UserRow(username, password, area, role, weekly_schedule) ==
    [username |-> username, password |-> password, area |-> area,
     role |-> role, weekly_schedule |-> weekly_schedule]

Usernames(rows) == {rows[i].username : i \in 1..Len(rows)}

RowOf(rows, username) ==
    rows[CHOOSE i \in 1..Len(rows) : rows[i].username = username]

(***************************************************************************)
(* Matching helpers of server.py                                           *)
(***************************************************************************)
\* (a variant that forgets the status)
is_driver_online(username) == username \in DOMAIN connected_drivers

_is_driver_available_online(username) ==
    /\ username \in DOMAIN connected_drivers
    /\ DictGet(driver_status, username, "available") = "available"

get_available_drivers(area, weekday, target_seconds) ==
    DriversGood(users, area, weekday, target_seconds)

get_available_drivers_raises(area) == DriversRaise(users, area)

RECURSIVE OnlineAvailable(_)
OnlineAvailable(matched) ==
    IF matched = << >> THEN << >>
    ELSE (IF _is_driver_available_online(Head(matched))
            THEN << Head(matched) >> ELSE << >>)
            \o OnlineAvailable(Tail(matched))

\* (a variant in which strict mode falls back to the other drivers)
get_matched_with_fallback(area, weekday, target_seconds, target_driver, preferred_only) ==
    LET matched == get_available_drivers(area, weekday, target_seconds)
    IN  IF /\ target_driver # None
           /\ target_driver \in Range(matched)
           /\ _is_driver_available_online(target_driver)
          THEN << target_driver >>
          ELSE OnlineAvailable(matched)

\* target_driver is None when the request names no (or an empty) target.
get_matched_available_drivers(area, weekday, target_seconds, target_driver, preferred_only) ==
    LET matched == get_available_drivers(area, weekday, target_seconds)
        target_ok == /\ target_driver \in Range(matched)
                     /\ _is_driver_available_online(target_driver)
    IN  IF preferred_only /\ target_driver # None
          THEN IF target_ok THEN << target_driver >> ELSE << >>
          ELSE IF target_driver # None /\ target_ok
                 THEN << target_driver >>
                 ELSE OnlineAvailable(matched)


(***************************************************************************)
(* Store operations on the users table (db_api.py)                         *)
(***************************************************************************)
\* register_user: INSERT, refused by the UNIQUE constraint on username
register_user(rows, data) ==
    IF data.username \in Usernames(rows) THEN rows ELSE Append(rows, data)

\* (a variant that does not compare the password)
login_user_any_password(rows, username, password) ==
    username \in Usernames(rows)

\* login_user: the row with this username and password, if any
login_user(rows, username, password) ==
    \E i \in 1..Len(rows) :
        rows[i].username = username /\ rows[i].password = password

\* update_user_profile: data.fields are the keys present in the request;
\* only name, email, area, password and weekly_schedule are ever written.
UpdatableFields == {"area", "password", "weekly_schedule"}

\* (a variant that also lets the request rewrite the role column)
UpdatedRowWithRole(row, data) ==
    [row EXCEPT
        !.area = IF "area" \in data.fields THEN data.area ELSE @,
        !.role = IF "role" \in data.fields THEN data.role ELSE @]

\* update_user_profile: only area, password and weekly_schedule are ever
\* put into the UPDATE's SET list
UpdatedRow(row, data) ==
    [row EXCEPT
        !.area = IF "area" \in data.fields THEN data.area ELSE @,
        !.password = IF "password" \in data.fields THEN data.password ELSE @,
        !.weekly_schedule = IF "weekly_schedule" \in data.fields
                              THEN data.weekly_schedule ELSE @]

update_user_profile(rows, data) ==
    IF data.fields \cap UpdatableFields = {} THEN rows
    ELSE [i \in 1..Len(rows) |->
            IF rows[i].username = data.username
              THEN UpdatedRow(rows[i], data) ELSE rows[i]]

update_user_profile_ok(rows, data) ==
    /\ data.fields \cap UpdatableFields # {}
    /\ data.username \in Usernames(rows)

(***************************************************************************)
(* handle_client: one request line at a time per connection                *)
(***************************************************************************)
\* (a variant that goes on reading a closed socket)
WaitingEvenClosed(c) == pc[c] = "idle"

\* The loop has a complete line to dispatch: after recv while connected, or
\* from the rest of the buffer after a disconnect line ("draining").
Waiting(c) == conn_state[c] # "closed" /\ pc[c] = "idle"

Ready(c) == Waiting(c) /\ requests < MaxRequests

Reply(c, r) ==
    response' = [conn |-> c, re |-> r.re, status |-> r.status,
                 ride_id |-> r.ride_id, rq |-> r.rq]

\* A step that starts at "idle" has taken one more line off the connection.
Dispatched(c) ==
    requests' = IF pc[c] = "idle" THEN requests + 1 ELSE requests

Goto(c, label, locals) ==
    /\ Dispatched(c)
    /\ answered' = answered
    /\ pc' = [pc EXCEPT ![c] = label]
    /\ local' = [local EXCEPT ![c] = locals]

\* safe_send(sock, response)
Return(c, r) ==
    /\ Dispatched(c)
    /\ Reply(c, r)
    /\ answered' = answered + 1
    /\ pc' = [pc EXCEPT ![c] = "idle"]
    /\ local' = [local EXCEPT ![c] = NoLocal]

\* action == "register"
Register(c, data) ==
    /\ Ready(c)
    /\ users' = register_user(users, data)
    /\ Return(c, Resp("register",
                      IF data.username \in Usernames(users)
                        THEN "error" ELSE "success"))
    /\ UNCHANGED << rides, presence, conn_state, close_cause, notifier, pushes, accept_ok,
                    scheduled_rides, ratings, wire,
                    client_side >>

\* action == "login": login_user, then the first write to the registry
Login(c, username, password) ==
    /\ Ready(c)
    /\ IF ~login_user(users, username, password)
         THEN /\ Return(c, Resp("login", "error"))
              /\ UNCHANGED presence
         ELSE IF RowOf(users, username).role = "driver"
                   THEN /\ connected_drivers' =
                                DictPut(connected_drivers, username, c)
                        /\ Goto(c, "login_status",
                                [action |-> "login", uname |-> username])
                        /\ UNCHANGED << connected_passengers, driver_status,
                                        response >>
                   ELSE /\ connected_passengers' =
                                DictPut(connected_passengers, username, c)
                        /\ Return(c, Resp("login", "success"))
                        /\ UNCHANGED << connected_drivers, driver_status >>
    /\ UNCHANGED << store, conn_state, close_cause, notifier, pushes,
                    accept_ok,
                    scheduled_rides, ratings, wire,
                    client_side >>

\* driver_status[uname] = driver_status.get(uname, "available")
LoginStatus(c) ==
    /\ pc[c] = "login_status"
    /\ driver_status' =
          DictPut(driver_status, local[c].uname,
                  DictGet(driver_status, local[c].uname, "available"))
    /\ Return(c, Resp("login", "success"))
    /\ UNCHANGED << store, connected_drivers, connected_passengers,
                    conn_state, close_cause, notifier, pushes,
                    accept_ok,
                    scheduled_rides, ratings, wire,
                    client_side >>

\* action == "update_profile"
UpdateProfile(c, data) ==
    /\ Ready(c)
    /\ users' = update_user_profile(users, data)
    /\ Return(c, Resp("update_profile",
                      IF update_user_profile_ok(users, data)
                        THEN "success" ELSE "error"))
    /\ UNCHANGED << rides, presence, conn_state, close_cause, notifier, pushes, accept_ok,
                    scheduled_rides, ratings, wire,
                    client_side >>

\* (a variant that stores the value as it came)
status_as_given(status_value) == status_value

\* if status_value not in ("available", "dnd"): status_value = "available"
coerce_status(status_value) ==
    IF status_value \in {"available", "dnd"} THEN status_value ELSE "available"

\* action == "set_status": the membership test ...
SetStatus(c, uname, status_value) ==
    /\ Ready(c)
    /\ IF uname # None /\ uname \in DOMAIN connected_drivers
         THEN /\ Goto(c, "set_status_write",
                      [action |-> "set_status", uname |-> uname,
                       status_value |-> coerce_status(status_value)])
              /\ UNCHANGED response
         ELSE Return(c, RqResp("set_status", "error", 0,
                               [action |-> "set_status", uname |-> uname]))
    /\ UNCHANGED << store, presence, conn_state, close_cause, notifier, pushes, accept_ok,
                    scheduled_rides, ratings, wire,
                    client_side >>

\* ... and the write that follows it
SetStatusWrite(c) ==
    /\ pc[c] = "set_status_write"
    /\ driver_status' =
          DictPut(driver_status, local[c].uname, local[c].status_value)
    /\ Return(c, Resp("set_status", "success"))
    /\ UNCHANGED << store, connected_drivers, connected_passengers,
                    conn_state, close_cause, notifier, pushes,
                    accept_ok,
                    scheduled_rides, ratings, wire,
                    client_side >>

\* action == "disconnect": connected = False, then the first pop ...
Disconnect(c, uname) ==
    /\ Ready(c)
    /\ conn_state' = [conn_state EXCEPT ![c] = "draining"]
    /\ IF uname # None
         THEN /\ connected_drivers' = DictPop(connected_drivers, uname)
              /\ Goto(c, "disconnect_rest",
                      [action |-> "disconnect", uname |-> uname])
              /\ UNCHANGED response
         ELSE /\ Return(c, Resp("disconnect", "success"))
              /\ UNCHANGED connected_drivers
    /\ UNCHANGED << store, connected_passengers, driver_status, close_cause,
                    notifier, pushes, accept_ok,
                    scheduled_rides, ratings, wire,
                    client_side >>

\* ... and the other two pops
DisconnectRest(c) ==
    /\ pc[c] = "disconnect_rest"
    /\ connected_passengers' = DictPop(connected_passengers, local[c].uname)
    /\ driver_status' = DictPop(driver_status, local[c].uname)
    /\ Return(c, Resp("disconnect", "success"))
    /\ UNCHANGED << store, connected_drivers, conn_state, close_cause,
                    notifier, pushes, accept_ok,
                    scheduled_rides, ratings, wire,
                    client_side >>

\* The buffer holds no further line after a disconnect: the loop ends and
\* the socket is closed.
LoopExit(c) ==
    /\ conn_state[c] = "draining"
    /\ pc[c] = "idle"
    /\ conn_state' = [conn_state EXCEPT ![c] = "closed"]
    /\ close_cause' = [close_cause EXCEPT ![c] = "disconnect"]
    /\ UNCHANGED << store, presence, pc, local, response, notifier, pushes,
                    accept_ok, requests,
                    scheduled_rides, ratings, wire,
                    client_side, answered >>

\* recv raises, recv returns no data, or json.loads raises on a line: the
\* loop breaks and the socket is closed.
CloseCauses == {"read_error", "peer_close", "bad_json"}

ConnectionEnd(c, cause) ==
    /\ Waiting(c)
    /\ cause = "bad_json" \/ conn_state[c] = "connected"
    /\ conn_state' = [conn_state EXCEPT ![c] = "closed"]
    /\ close_cause' = [close_cause EXCEPT ![c] = cause]
    /\ UNCHANGED << store, presence, pc, local, response, notifier, pushes,
                    accept_ok, requests,
                    scheduled_rides, ratings, wire,
                    client_side, answered >>


\* action == "get_profile": db_api.get_user_profile
get_user_profile(rows, username) ==
    IF username \in Usernames(rows) THEN "success" ELSE "error"

GetProfile(c, username) ==
    /\ Ready(c)
    /\ Return(c, Resp("get_profile", get_user_profile(users, username)))
    /\ UNCHANGED << store, scheduled_rides, ratings, wire,
                    client_side, presence, conn_state, close_cause,
                    notifier, pushes, accept_ok >>

\* The actions whose handler reads a request key with data["..."] before it
\* does anything else
SubscriptedActions ==
    {"get_profile", "create_ride", "accept_ride", "complete_ride"}

\* A request object without such a key: data["..."] raises KeyError, which
\* "except Exception" catches outside the loop over the lines; break, then
\* sock.close().  safe_send is never reached.
KeyErrorRequest(c, action) ==
    /\ Ready(c)
    /\ action \in SubscriptedActions
    /\ requests' = requests + 1
    /\ conn_state' = [conn_state EXCEPT ![c] = "closed"]
    /\ close_cause' = [close_cause EXCEPT ![c] = "key_error"]
    /\ UNCHANGED << store, scheduled_rides, ratings, wire,
                    client_side, presence, pc, local, response,
                    notifier, pushes, accept_ok, answered >>


(***************************************************************************)
(* Rides: store operations (db_api.py)                                     *)
(***************************************************************************)
RideIds == 1..Len(rides)

\* create_ride_request: INSERT ... 'pending'; the driver columns stay NULL
NewRide(passenger_username, area, time_sec, weekday) ==
    [passenger_username |-> passenger_username, area |-> area,
     time |-> time_sec, weekday |-> weekday, status |-> "pending",
     driver_username |-> None, driver_ip |-> None, driver_port |-> None]

\* (a variant whose WHERE clause forgets the status)
accept_ride_any_status(rows, ride_id) == ride_id \in 1..Len(rows)

\* accept_ride: UPDATE ... WHERE id=? AND status='pending'; rowcount > 0
accept_ride_ok(rows, ride_id) ==
    ride_id \in 1..Len(rows) /\ rows[ride_id].status = "pending"

\* (a variant that writes the driver columns and forgets the status)
accept_ride_without_status(rows, ride_id, driver_username, ip, port) ==
    IF accept_ride_ok(rows, ride_id)
      THEN [rows EXCEPT ![ride_id] =
                [@ EXCEPT !.driver_username = driver_username,
                          !.driver_ip = ip,
                          !.driver_port = port]]
      ELSE rows

accept_ride(rows, ride_id, driver_username, ip, port) ==
    IF accept_ride_ok(rows, ride_id)
      THEN [rows EXCEPT ![ride_id] =
                [@ EXCEPT !.status = "accepted",
                          !.driver_username = driver_username,
                          !.driver_ip = ip,
                          !.driver_port = port]]
      ELSE rows

\* (a variant whose WHERE clause forgets the driver)
complete_ride_any_driver(rows, ride_id, driver_username) ==
    ride_id \in 1..Len(rows) /\ rows[ride_id].status = "accepted"

\* (a variant that also completes a ride that is completed already)
complete_ride_again(rows, ride_id, driver_username) ==
    /\ ride_id \in 1..Len(rows)
    /\ rows[ride_id].status \in {"accepted", "completed"}
    /\ rows[ride_id].driver_username = driver_username

\* complete_ride: UPDATE ... WHERE id=? AND status='accepted'
\*                               AND driver_username=?
complete_ride_ok(rows, ride_id, driver_username) ==
    /\ ride_id \in 1..Len(rows)
    /\ rows[ride_id].status = "accepted"
    /\ rows[ride_id].driver_username = driver_username

complete_ride(rows, ride_id, driver_username) ==
    IF complete_ride_ok(rows, ride_id, driver_username)
      THEN [rows EXCEPT ![ride_id] = [@ EXCEPT !.status = "completed"]]
      ELSE rows

\* (a variant whose WHERE clause forgets the status)
decline_ride_any_status(rows, ride_id) == ride_id \in 1..Len(rows)

\* decline_ride: UPDATE ... SET status='declined'
\*               WHERE id=? AND status='pending'
decline_ride_ok(rows, ride_id) ==
    ride_id \in 1..Len(rows) /\ rows[ride_id].status = "pending"

decline_ride(rows, ride_id) ==
    IF decline_ride_ok(rows, ride_id)
      THEN [rows EXCEPT ![ride_id] = [@ EXCEPT !.status = "declined"]]
      ELSE rows

(***************************************************************************)
(* Pushes: what safe_send is handed for a peer's socket, and whether the   *)
(* write went through                                                      *)
(***************************************************************************)
\* sock.sendall raises on a socket the server has closed
sendall_raises(sock) == conn_state[sock] = "closed"

\* (a variant without the try/except around the write)
safe_send_unguarded(sock) == sendall_raises(sock)

\* safe_send lets no exception out: "except Exception: pass"
safe_send_raises(sock) == FALSE

Push(action, sock, username, ride_id) ==
    [action |-> action, to |-> sock, username |-> username,
     ride_id |-> ride_id, written |-> ~sendall_raises(sock)]

Sent(log, msg) == DictPut(log, msg, DictGet(log, msg, 0) + 1)

\* connected_passengers.get(passenger_username), then safe_send if found
PushToPassenger(action, passenger_username, ride_id) ==
    IF passenger_username \in DOMAIN connected_passengers
      THEN Sent(pushes, Push(action,
                             connected_passengers[passenger_username],
                             passenger_username, ride_id))
      ELSE pushes

\* The push to the passenger lets an exception out into the handler
PassengerPushRaises(passenger_username) ==
    /\ passenger_username \in DOMAIN connected_passengers
    /\ safe_send_raises(connected_passengers[passenger_username])

\* The end of a handler that has sent a push: an exception that reached the
\* handler is caught outside the loop over the lines (break, sock.close(),
\* no response); otherwise the response is written.
ReturnUnless(c, raised, r) ==
    IF raised
      THEN /\ conn_state' = [conn_state EXCEPT ![c] = "closed"]
           /\ close_cause' = [close_cause EXCEPT ![c] = "exception"]
           /\ pc' = [pc EXCEPT ![c] = "idle"]
           /\ local' = [local EXCEPT ![c] = NoLocal]
           /\ UNCHANGED << response, requests, answered >>
      ELSE /\ Return(c, r)
           /\ UNCHANGED << conn_state, close_cause >>

(***************************************************************************)
(* action == "create_ride"                                                 *)
(***************************************************************************)
RideRequest(passenger_username, area, time, weekday, target_driver, preferred_only) ==
    [passenger_username |-> passenger_username, area |-> area, time |-> time,
     weekday |-> weekday, target_driver |-> target_driver,
     preferred_only |-> preferred_only]

\* The drivers the handler's own call of the matcher returns
AvailableDrivers(rq) ==
    get_matched_available_drivers(rq.area, rq.weekday,
                                  time_to_seconds(rq.time),
                                  rq.target_driver, rq.preferred_only)

\* The notify_matched_drivers thread of a new ride, not yet run.  matched is
\* the handler's matched set, kept to compare with what the thread does;
\* sock and left are those of a sendall the thread is in the middle of.
NewNotifier(rq, matched) ==
    [pc |-> "match", drivers |-> << >>, area |-> rq.area,
     time |-> time_to_seconds(rq.time), weekday |-> rq.weekday,
     target_driver |-> rq.target_driver,
     preferred_only |-> rq.preferred_only, matched |-> matched,
     sock |-> None, left |-> 0]

\* (a variant that never takes the error branch)
always_someone(available_drivers) == FALSE

\* "if not available_drivers"
no_one_available(available_drivers) == available_drivers = << >>

CreateRide(c, rq) ==
    /\ Ready(c)
    /\ IF /\ time_to_seconds(rq.time) # TimeError
          /\ get_available_drivers_raises(rq.area)
         THEN /\ requests' = requests + 1
              /\ conn_state' = [conn_state EXCEPT ![c] = "closed"]
              /\ close_cause' = [close_cause EXCEPT ![c] = "exception"]
              /\ UNCHANGED << rides, notifier, pc, local, response,
                              answered >>
         ELSE /\ IF \/ time_to_seconds(rq.time) = TimeError
                    \/ no_one_available(AvailableDrivers(rq))
                   THEN /\ Return(c, RqResp("create_ride", "error", 0, rq))
                        /\ UNCHANGED << rides, notifier >>
                   ELSE /\ Len(rides) < MaxRides
                        /\ rides' = Append(rides,
                                        NewRide(rq.passenger_username,
                                                rq.area,
                                                time_to_seconds(rq.time),
                                                rq.weekday))
                        /\ notifier' = Append(notifier,
                                NewNotifier(rq, Range(AvailableDrivers(rq))))
                        /\ Return(c, RqResp("create_ride", "success",
                                            Len(rides) + 1, rq))
              /\ UNCHANGED << conn_state, close_cause >>
    /\ UNCHANGED << users, presence, pushes, accept_ok, scheduled_rides,
                    ratings, wire, client_side >>

\* notify_matched_drivers, in its own thread: the matcher is called again;
\* an exception in it ends the thread before it has sent anything
NotifyMatch(r) ==
    /\ r \in 1..Len(notifier)
    /\ notifier[r].pc = "match"
    /\ LET drivers == IF get_available_drivers_raises(notifier[r].area)
                        THEN << >>
                        ELSE get_matched_available_drivers(
                                notifier[r].area, notifier[r].weekday,
                                notifier[r].time, notifier[r].target_driver,
                                notifier[r].preferred_only)
       IN  notifier' = [notifier EXCEPT ![r] =
                [@ EXCEPT !.pc = IF drivers = << >> THEN "done" ELSE "send",
                          !.drivers = drivers]]
    /\ UNCHANGED << users, rides, presence, conn_state, close_cause, pc,
                    local, response, pushes, accept_ok, requests,
                    scheduled_rides, ratings, wire,
                    client_side, answered >>

\* one turn of "for username in drivers"
NotifySend(r) ==
    /\ r \in 1..Len(notifier)
    /\ notifier[r].pc = "send"
    /\ LET username == Head(notifier[r].drivers)
           rest == Tail(notifier[r].drivers)
       IN  /\ pushes' = IF username \in DOMAIN connected_drivers
                          THEN Sent(pushes,
                                    Push("new_ride",
                                         connected_drivers[username],
                                         username, r))
                          ELSE pushes
           /\ notifier' = [notifier EXCEPT ![r] =
                    [@ EXCEPT !.pc = IF rest = << >> THEN "done" ELSE "send",
                              !.drivers = rest]]
    /\ UNCHANGED << users, rides, presence, conn_state, close_cause, pc,
                    local, response, accept_ok, requests,
                    scheduled_rides, ratings, wire,
                    client_side, answered >>

(***************************************************************************)
(* action == "accept_ride"                                                 *)
(***************************************************************************)
\* id_text says that the request's ride_id is a JSON string of digits
\* ("1") and not a JSON number (1).
AcceptRequest(ride_id, username, driver_ip, driver_port) ==
    [action |-> "accept_ride", ride_id |-> ride_id, id_text |-> FALSE,
     username |-> username, driver_ip |-> driver_ip,
     driver_port |-> driver_port]

AcceptRequestText(ride_id, username, driver_ip, driver_port) ==
    [AcceptRequest(ride_id, username, driver_ip, driver_port)
        EXCEPT !.id_text = TRUE]

\* "WHERE id=?": the id column has INTEGER affinity, so SQLite converts a
\* text parameter and row 1 matches both 1 and "1".
\* r["id"] == ride_id in Python: an int never equals a str.
\* (a variant in which no row is ever the ride of the request)
never_same_id(rq, row_id) == FALSE

same_id_python(rq, row_id) == ~rq.id_text /\ rq.ride_id = row_id

\* db_api.accept_ride
AcceptRide(c, rq) ==
    /\ Ready(c)
    /\ rides' = accept_ride(rides, rq.ride_id, rq.username, rq.driver_ip,
                            rq.driver_port)
    /\ IF accept_ride_ok(rides, rq.ride_id)
         THEN /\ accept_ok' = Append(accept_ok,
                                      [conn |-> c, ride_id |-> rq.ride_id,
                                       username |-> rq.username,
                                       driver_ip |-> rq.driver_ip,
                                       driver_port |-> rq.driver_port])
              /\ Goto(c, "accept_notify", rq)
              /\ UNCHANGED response
         ELSE /\ Return(c, RideResp("accept_ride", "error", rq.ride_id))
              /\ UNCHANGED accept_ok
    /\ UNCHANGED << users, presence, conn_state, close_cause, notifier, pushes,
                    scheduled_rides, ratings, wire,
                    client_side >>

\* the passenger of the ride in get_ride_history(driver_username, "driver"),
\* the ride_accepted push and the response
AcceptRideNotify(c) ==
    /\ pc[c] = "accept_notify"
    /\ LET rq == local[c]
           found == \E id \in RideIds :
                        /\ rides[id].driver_username = rq.username
                        /\ same_id_python(rq, id)
       IN  /\ pushes' = IF found
                           THEN PushToPassenger("ride_accepted",
                                    rides[rq.ride_id].passenger_username,
                                    rq.ride_id)
                           ELSE pushes
           /\ ReturnUnless(c,
                  found /\ PassengerPushRaises(rides[rq.ride_id].passenger_username),
                  RideResp("accept_ride", "success", rq.ride_id))
    /\ UNCHANGED << users, rides, presence, notifier, accept_ok,
                    scheduled_rides, ratings, wire,
                    client_side >>

(***************************************************************************)
(* action == "get_pending_rides"                                           *)
(***************************************************************************)
\* db_api.get_pending_rides: SELECT ... WHERE status='pending' AND area=?
get_pending_rides(area) ==
    {id \in RideIds : rides[id].status = "pending" /\ rides[id].area = area}

\* The ids of the rides returned travel in the response
GetPendingRides(c, area) ==
    /\ Ready(c)
    /\ Return(c, RqResp("get_pending_rides", "success", 0,
                        [action |-> "get_pending_rides", area |-> area,
                         rides |-> get_pending_rides(area)]))
    /\ UNCHANGED << users, rides, scheduled_rides, ratings, presence,
                    conn_state, close_cause, notifier, pushes, accept_ok,
                    wire, client_side >>

(***************************************************************************)
(* action == "complete_ride"                                               *)
(***************************************************************************)
CompleteRequest(ride_id, username) ==
    [action |-> "complete_ride", ride_id |-> ride_id, username |-> username]

\* db_api.complete_ride
CompleteRide(c, rq) ==
    /\ Ready(c)
    /\ rides' = complete_ride(rides, rq.ride_id, rq.username)
    /\ IF complete_ride_ok(rides, rq.ride_id, rq.username)
         THEN /\ Goto(c, "complete_notify", rq)
              /\ UNCHANGED response
         ELSE Return(c, RideResp("complete_ride", "error", rq.ride_id))
    /\ UNCHANGED << users, presence, conn_state, close_cause, notifier, pushes, accept_ok,
                    scheduled_rides, ratings, wire,
                    client_side >>

\* get_ride_by_id, the ride_completed push and the response
CompleteRideNotify(c) ==
    /\ pc[c] = "complete_notify"
    /\ pushes' = IF local[c].ride_id \in RideIds
                   THEN PushToPassenger("ride_completed",
                            rides[local[c].ride_id].passenger_username,
                            local[c].ride_id)
                   ELSE pushes
    /\ ReturnUnless(c,
           /\ local[c].ride_id \in RideIds
           /\ PassengerPushRaises(rides[local[c].ride_id].passenger_username),
           RideResp("complete_ride", "success", local[c].ride_id))
    /\ UNCHANGED << users, rides, presence, notifier, accept_ok,
                    scheduled_rides, ratings, wire,
                    client_side >>


(***************************************************************************)
(* action == "decline_ride"                                                *)
(***************************************************************************)
DeclineRequest(ride_id, username) ==
    [action |-> "decline_ride", ride_id |-> ride_id, username |-> username]

\* db_api.decline_ride; a request without a ride_id and one with an id that
\* is no pending ride both end in an error response
DeclineRide(c, rq) ==
    /\ Ready(c)
    /\ rides' = decline_ride(rides, rq.ride_id)
    /\ IF decline_ride_ok(rides, rq.ride_id)
         THEN /\ Goto(c, "decline_notify", rq)
              /\ UNCHANGED response
         ELSE Return(c, RideResp("decline_ride", "error", rq.ride_id))
    /\ UNCHANGED << users, scheduled_rides, ratings, wire,
                    client_side, presence, conn_state, close_cause,
                    notifier, pushes, accept_ok >>

\* get_ride_by_id, the ride_declined push and the response
DeclineRideNotify(c) ==
    /\ pc[c] = "decline_notify"
    /\ pushes' = IF local[c].ride_id \in RideIds
                   THEN PushToPassenger("ride_declined",
                            rides[local[c].ride_id].passenger_username,
                            local[c].ride_id)
                   ELSE pushes
    /\ ReturnUnless(c,
           /\ local[c].ride_id \in RideIds
           /\ PassengerPushRaises(rides[local[c].ride_id].passenger_username),
           RideResp("decline_ride", "success", local[c].ride_id))
    /\ UNCHANGED << users, rides, scheduled_rides, ratings, wire,
                    client_side, presence, notifier,
                    accept_ok >>


(***************************************************************************)
(* Scheduled rides.  A date string is modelled by whether                  *)
(* strptime(date, "%Y-%m-%d") parses it ("iso") or not ("bad") and by the  *)
(* weekday of the day it names (0 is Monday).                              *)
(***************************************************************************)
DateStr(kind, weekday) == [kind |-> kind, weekday |-> weekday]

DateMon == DateStr("iso", 0)
DateTue == DateStr("iso", 1)
DateBad == DateStr("bad", 0)

\* list_drivers(area): SELECT ... WHERE role='driver' AND area=?
list_drivers(rows, area) ==
    {rows[i].username : i \in {j \in 1..Len(rows) :
                                  rows[j].role = "driver" /\ rows[j].area = area}}

\* find_drivers_for_datetime raises for a date or a time it cannot parse
find_drivers_for_datetime_ok(date, time) ==
    date.kind = "iso" /\ time_to_seconds(time) # TimeError

\* ... and when its call of get_available_drivers raises
find_drivers_for_datetime_raises(area, date, time) ==
    \/ ~find_drivers_for_datetime_ok(date, time)
    \/ get_available_drivers_raises(area)

\* (a variant that lists every driver of the area)
list_drivers_of_area(area, date, time) == list_drivers(users, area)

\* The usernames of the drivers find_drivers_for_datetime returns
find_drivers_for_datetime(area, date, time) ==
    {u \in list_drivers(users, area) : u \in Range(get_available_drivers(area, date.weekday, time_to_seconds(time)))}

ScheduledRow(passenger_username, driver_username, area, date, time, weekday) ==
    [passenger_username |-> passenger_username,
     driver_username |-> driver_username, area |-> area, date |-> date,
     time |-> time, weekday |-> weekday, status |-> "scheduled"]

\* db_api.create_scheduled_ride: the checks, then the INSERT
create_scheduled_ride_ok(data) ==
    /\ data.passenger_username # None
    /\ data.driver_username # None
    /\ data.area # None
    /\ data.date.kind = "iso"
    /\ time_to_seconds(data.time) # TimeError

create_scheduled_ride(rows, data) ==
    IF create_scheduled_ride_ok(data)
      THEN Append(rows, ScheduledRow(data.passenger_username,
                                     data.driver_username, data.area,
                                     data.date, time_to_seconds(data.time),
                                     data.date.weekday))
      ELSE rows

ScheduledIds == 1..Len(scheduled_rides)

\* get_scheduled_ride(ride_id) finds a row
get_scheduled_ride_ok(rows, ride_id) == ride_id \in 1..Len(rows)

\* update_scheduled_ride_status: UPDATE scheduled_rides SET status=?
\*                               WHERE id=?
update_scheduled_ride_status_ok(rows, ride_id) == ride_id \in 1..Len(rows)

update_scheduled_ride_status(rows, ride_id, status) ==
    IF update_scheduled_ride_status_ok(rows, ride_id)
      THEN [rows EXCEPT ![ride_id] = [@ EXCEPT !.status = status]]
      ELSE rows

\* A push about a scheduled ride
SchedPush(action, sock, username, ride_id, status) ==
    [action |-> action, to |-> sock, username |-> username,
     ride_id |-> ride_id, status |-> status,
     written |-> ~sendall_raises(sock)]

\* registry.get(username), then safe_send if a socket was found
PushToPeer(registry, action, username, ride_id, status) ==
    IF username \in DOMAIN registry
      THEN Sent(pushes, SchedPush(action, registry[username], username,
                                  ride_id, status))
      ELSE pushes

(***************************************************************************)
(* action == "create_scheduled_ride"                                       *)
(***************************************************************************)
ScheduledRequest(passenger_username, driver_username, area, date, time) ==
    [action |-> "create_scheduled_ride",
     passenger_username |-> passenger_username,
     driver_username |-> driver_username, area |-> area, date |-> date,
     time |-> time]

\* not all([area, date_str, time_str, passenger_username, driver_username]);
\* the requests of the model always carry a date and a time
MissingScheduledFields(rq) ==
    \/ rq.area = None
    \/ rq.passenger_username = None
    \/ rq.driver_username = None

CreateScheduledRide(c, rq) ==
    LET valid == /\ ~MissingScheduledFields(rq)
                 /\ find_drivers_for_datetime_ok(rq.date, rq.time)
                 /\ ~get_available_drivers_raises(rq.area)
                 /\ rq.driver_username \in find_drivers_for_datetime(rq.area, rq.date, rq.time)
                 /\ create_scheduled_ride_ok(rq)
        ride_id == Len(scheduled_rides) + 1
    IN  /\ Ready(c)
        /\ Len(scheduled_rides) < MaxRides
        /\ scheduled_rides' = IF valid
                                THEN create_scheduled_ride(scheduled_rides, rq)
                                ELSE scheduled_rides
        /\ pushes' = IF valid
                       THEN PushToPeer(connected_drivers,
                                       "scheduled_ride_created",
                                       rq.driver_username, ride_id,
                                       "scheduled")
                       ELSE pushes
        /\ Return(c, RqResp("create_scheduled_ride",
                            IF valid THEN "success" ELSE "error",
                            IF valid THEN ride_id ELSE 0, rq))
        /\ UNCHANGED << users, rides, presence, conn_state, close_cause,
                        notifier, accept_ok, ratings, wire,
                        client_side >>

\* action == "search_scheduled_drivers": missing fields and every
\* exception of find_drivers_for_datetime end in an error response; the
\* usernames found travel in the response
SearchRequest(area, date, time) ==
    [action |-> "search_scheduled_drivers", area |-> area, date |-> date,
     time |-> time]

SearchScheduledDrivers(c, rq) ==
    LET failed == \/ rq.area = None
                  \/ find_drivers_for_datetime_raises(rq.area, rq.date, rq.time)
    IN  /\ Ready(c)
        /\ Return(c, RqResp("search_scheduled_drivers",
                     IF failed THEN "error" ELSE "success", 0,
                     [action |-> rq.action, area |-> rq.area,
                      date |-> rq.date, time |-> rq.time,
                      drivers |->
                        IF failed THEN {}
                        ELSE find_drivers_for_datetime(rq.area, rq.date,
                                                       rq.time)]))
        /\ UNCHANGED << users, rides, scheduled_rides, ratings, presence,
                        conn_state, close_cause, notifier, pushes, accept_ok,
                        wire, client_side >>

(***************************************************************************)
(* action == "driver_accept_scheduled_ride",                               *)
(*           "driver_decline_scheduled_ride",                              *)
(*           "passenger_cancel_scheduled_ride"                             *)
(***************************************************************************)
\* id_kind is "int" for a ride_id that int() converts and "bad" for one it
\* raises for
ScheduledUpdateRequest(action, ride_id, id_kind, username) ==
    [action |-> action, ride_id |-> ride_id, id_kind |-> id_kind,
     username |-> username]

ScheduledStatus(action) ==
    CASE action = "driver_accept_scheduled_ride" -> "accepted"
      [] action = "driver_decline_scheduled_ride" -> "declined"
      [] action = "passenger_cancel_scheduled_ride" -> "canceled"

\* (a variant that takes the caller's word)
ride_party_is_caller(ride, rq) == rq.username

\* The username of the ride the handler compares the caller with
ride_party(ride, rq) ==
    IF rq.action = "passenger_cancel_scheduled_ride"
      THEN ride.passenger_username
      ELSE ride.driver_username

\* and the peer the handler sends the scheduled_ride_updated push to
ride_peer(ride, rq) ==
    IF rq.action = "passenger_cancel_scheduled_ride"
      THEN ride.driver_username
      ELSE ride.passenger_username

\* (a variant that looks every peer up among the drivers)
drivers_registry(rq) == connected_drivers

\* the registry the handler looks the peer up in
peer_registry(rq) ==
    IF rq.action = "passenger_cancel_scheduled_ride"
      THEN connected_drivers
      ELSE connected_passengers

\* int(ride_id), get_scheduled_ride and the comparison with the caller
ScheduledUpdateAllowed(rq) ==
    /\ rq.id_kind = "int"
    /\ get_scheduled_ride_ok(scheduled_rides, rq.ride_id)
    /\ ride_party(scheduled_rides[rq.ride_id], rq) = rq.username

ScheduledUpdateCheck(c, rq) ==
    /\ Ready(c)
    /\ IF ScheduledUpdateAllowed(rq)
         THEN /\ Goto(c, "scheduled_update", rq)
              /\ UNCHANGED response
         ELSE Return(c, RqResp(rq.action, "error", rq.ride_id, rq))
    /\ UNCHANGED << store, scheduled_rides, ratings, wire,
                    client_side, presence, conn_state,
                    close_cause, notifier, pushes, accept_ok >>

DriverAcceptScheduledRide(c, ride_id, id_kind, username) ==
    ScheduledUpdateCheck(c, ScheduledUpdateRequest("driver_accept_scheduled_ride", ride_id, id_kind, username))

DriverDeclineScheduledRide(c, ride_id, id_kind, username) ==
    ScheduledUpdateCheck(c, ScheduledUpdateRequest("driver_decline_scheduled_ride", ride_id, id_kind, username))

PassengerCancelScheduledRide(c, ride_id, id_kind, username) ==
    ScheduledUpdateCheck(c, ScheduledUpdateRequest("passenger_cancel_scheduled_ride", ride_id, id_kind, username))

\* update_scheduled_ride_status, the scheduled_ride_updated push and the
\* response
ScheduledUpdate(c) ==
    LET rq == local[c]
        ok == update_scheduled_ride_status_ok(scheduled_rides, rq.ride_id)
    IN  /\ pc[c] = "scheduled_update"
        /\ scheduled_rides' = update_scheduled_ride_status(scheduled_rides, rq.ride_id, ScheduledStatus(rq.action))
        /\ pushes' = IF ok
                       THEN PushToPeer(peer_registry(rq),
                                "scheduled_ride_updated",
                                ride_peer(scheduled_rides[rq.ride_id], rq),
                                rq.ride_id, ScheduledStatus(rq.action))
                       ELSE pushes
        /\ Return(c, RqResp(rq.action, IF ok THEN "success" ELSE "error",
                            rq.ride_id, rq))
        /\ UNCHANGED << store, presence, conn_state, close_cause, notifier,
                        accept_ok, ratings, wire, client_side >>


(***************************************************************************)
(* Ratings (db_api.py).  A score is a number, or a text that is no number: *)
(* the score column takes either, and float() raises on the second.        *)
(***************************************************************************)
Score(kind, value) == [kind |-> kind, value |-> value]

ScoreText == Score("text", 0)

\* Python's None where a score is expected
NoScore == Score("none", 0)

Rating(ride_id, rater_username, ratee_username, score) ==
    [ride_id |-> ride_id, rater_username |-> rater_username,
     ratee_username |-> ratee_username, score |-> score]

\* submit_rating: the INSERT fails on a NULL in a NOT NULL column; of the
\* four such columns the requests here leave out the score only
submit_rating_ok(data) == data.score # NoScore

submit_rating(rows, data) ==
    IF submit_rating_ok(data) THEN Append(rows, data) ELSE rows

\* The ids of the ratings of one ride from rater to ratee
RatingIds(rows, ride_id, rater, ratee) ==
    {i \in 1..Len(rows) : /\ rows[i].ride_id = ride_id
                          /\ rows[i].rater_username = rater
                          /\ rows[i].ratee_username = ratee}

\* SELECT score ... ORDER BY id DESC LIMIT 1; None when fetchone() is None
last_rating(rows, ride_id, rater, ratee) ==
    LET ids == RatingIds(rows, ride_id, rater, ratee)
    IN  IF ids = {} THEN NoScore
        ELSE rows[CHOOSE i \in ids : \A j \in ids : j <= i].score

\* "if other:" lets neither None nor the empty string through
truthy(other) == other # None /\ other # ""

\* the rows the SELECT of get_ride_history returns for this role
HistoryIds(username, role) ==
    {id \in RideIds :
        IF role = "passenger"
          THEN rides[id].passenger_username = username
          ELSE rides[id].driver_username = username}

other_of(id, role) ==
    IF role = "passenger" THEN rides[id].driver_username
    ELSE rides[id].passenger_username

\* float(row[0]) raises ValueError on a score that is no number
float_raises(score) == score.kind = "text"

get_ride_history_raises(username, role) ==
    \E id \in HistoryIds(username, role) :
        /\ truthy(other_of(id, role))
        /\ \/ float_raises(last_rating(ratings, id, username, other_of(id, role)))
           \/ float_raises(last_rating(ratings, id, other_of(id, role), username))

\* one element of rides_out
HistoryRow(id, username, role) ==
    LET other == other_of(id, role)
    IN  [id |-> id,
         passenger_username |-> rides[id].passenger_username,
         driver_username |-> rides[id].driver_username,
         my_rating |-> IF truthy(other)
                         THEN last_rating(ratings, id, username, other)
                         ELSE NoScore,
         their_rating |-> IF truthy(other)
                            THEN last_rating(ratings, id, other, username)
                            ELSE NoScore]

\* get_ride_history: rides_out, as a function of the ride id
get_ride_history(username, role) ==
    [id \in HistoryIds(username, role) |-> HistoryRow(id, username, role)]

\* The request, together with the rides of the answer ("Invalid role" has
\* none)
HistoryResult(username, role) ==
    [action |-> "get_ride_history", username |-> username, role |-> role,
     rides |-> IF role \in {"passenger", "driver"}
                 THEN get_ride_history(username, role) ELSE << >>]

\* action == "submit_rating"
SubmitRating(c, data) ==
    /\ Ready(c)
    /\ Len(ratings) < MaxRatings
    /\ ratings' = submit_rating(ratings, data)
    /\ Return(c, Resp("submit_rating",
                      IF submit_rating_ok(data) THEN "success" ELSE "error"))
    /\ UNCHANGED << users, rides, scheduled_rides, presence, conn_state,
                    close_cause, notifier, pushes, accept_ok, wire,
                    client_side >>

\* action == "get_ride_history"; the rows returned travel in the response.
\* An exception in db_api.get_ride_history ends the connection unanswered.
GetRideHistory(c, username, role) ==
    /\ Ready(c)
    /\ IF role \in {"passenger", "driver"} /\ get_ride_history_raises(username, role)
         THEN /\ requests' = requests + 1
              /\ conn_state' = [conn_state EXCEPT ![c] = "closed"]
              /\ close_cause' = [close_cause EXCEPT ![c] = "exception"]
              /\ UNCHANGED << pc, local, response, answered >>
         ELSE /\ Return(c, RqResp("get_ride_history",
                           IF role \in {"passenger", "driver"}
                             THEN "success" ELSE "error",
                           0, HistoryResult(username, role)))
              /\ UNCHANGED << conn_state, close_cause >>
    /\ UNCHANGED << users, rides, scheduled_rides, presence, notifier,
                    pushes, accept_ok, ratings, wire, client_side >>


(***************************************************************************)
(* The bytes on a socket (server.py, safe_send) and the RealtimeClient of  *)
(* client/api_client.py: their values when nothing was sent yet            *)
(***************************************************************************)
NoBytes == [c \in Conns |-> << >>]

Threads == {"t1", "t2"}

\* The payload of the n-th call of a thread, and the server's response to
\* it; a response says which request it answers
Payload(thread, n) == [thread |-> thread, n |-> n]

NoPayload == Payload(None, 0)

\* self._pending_response = None
NoPending == [re |-> NoPayload]

\* What _send_and_wait returns: the pending response, or one of its own
\* error objects
Result(kind, re) == [kind |-> kind, re |-> re]

\* RealtimeClient.__init__: the event is clear, no response is pending and
\* nobody holds the lock
RealtimeClient ==
    [send_lock |-> None, response_event |-> FALSE,
     pending_response |-> NoPending]

NoCalls ==
    [t \in Threads |-> [pc |-> "idle", payload |-> NoPayload, calls |-> 0,
                        result |-> Result(None, NoPayload)]]

\* The lines on the way to the server and back, and the line the listener
\* thread has stored but not yet signalled (msg)
NoLines == [to_server |-> << >>, to_client |-> << >>, msg |-> NoPending]

\* What a step of the client program leaves alone: the server's state
server_side ==
    << users, rides, scheduled_rides, connected_drivers,
       connected_passengers, driver_status, conn_state, close_cause, pc,
       local, response, notifier, pushes, accept_ok, requests, answered,
       ratings, wire >>

\* _send_and_wait is called: the payload is encoded
Call(t) ==
    /\ caller[t].pc = "idle"
    /\ caller[t].calls < MaxCalls
    /\ caller' = [caller EXCEPT ![t] =
            [pc |-> "lock", payload |-> Payload(t, caller[t].calls + 1),
             calls |-> caller[t].calls + 1,
             result |-> Result(None, NoPayload)]]
    /\ UNCHANGED << client, link, server_side >>

\* "with self._send_lock: self._response_event.clear()"
Clear(t) ==
    /\ caller[t].pc = "lock"
    /\ client.send_lock = None
    /\ client' = [client EXCEPT !.send_lock = t, !.response_event = FALSE]
    /\ caller' = [caller EXCEPT ![t].pc = "reset"]
    /\ UNCHANGED << link, server_side >>

\* "self._pending_response = None"
Reset(t) ==
    /\ caller[t].pc = "reset"
    /\ client' = [client EXCEPT !.pending_response = NoPending]
    /\ caller' = [caller EXCEPT ![t].pc = "sendall"]
    /\ UNCHANGED << link, server_side >>

\* "self._sock.sendall(data_out)", and the lock is released
Sendall(t) ==
    /\ caller[t].pc = "sendall"
    /\ link' = [link EXCEPT !.to_server = Append(@, caller[t].payload)]
    /\ client' = [client EXCEPT !.send_lock = None]
    /\ caller' = [caller EXCEPT ![t].pc = "wait"]
    /\ UNCHANGED server_side

\* "self._response_event.wait(wait_timeout)" returns True
Woken(t) ==
    /\ caller[t].pc = "wait"
    /\ client.response_event
    /\ caller' = [caller EXCEPT ![t].pc = "return"]
    /\ UNCHANGED << client, link, server_side >>

\* ... or False: "Timed out waiting for server response"
TimedOut(t) ==
    /\ caller[t].pc = "wait"
    /\ ~client.response_event
    /\ caller' = [caller EXCEPT ![t].pc = "idle",
                                ![t].result = Result("timeout", NoPayload)]
    /\ UNCHANGED << client, link, server_side >>

\* "return self._pending_response or {... No response from server}"
ReturnPending(t) ==
    /\ caller[t].pc = "return"
    /\ caller' = [caller EXCEPT
            ![t].pc = "idle",
            ![t].result = IF client.pending_response = NoPending
                            THEN Result("no_response", NoPayload)
                            ELSE Result("response",
                                        client.pending_response.re)]
    /\ UNCHANGED << client, link, server_side >>

\* The server reads the next request line and writes its response
Serve ==
    /\ link.to_server # << >>
    /\ link' = [link EXCEPT
            !.to_server = Tail(@),
            !.to_client = Append(@, [re |-> Head(link.to_server)])]
    /\ UNCHANGED << client, caller, server_side >>

\* _listener_loop: a line with "status" and without "action" is stored ...
ListenerStore ==
    /\ link.msg = NoPending
    /\ link.to_client # << >>
    /\ client' = [client EXCEPT !.pending_response = Head(link.to_client)]
    /\ link' = [link EXCEPT !.to_client = Tail(@),
                            !.msg = Head(link.to_client)]
    /\ UNCHANGED << caller, server_side >>

\* ... and the event is set
ListenerSet ==
    /\ link.msg # NoPending
    /\ client' = [client EXCEPT !.response_event = TRUE]
    /\ link' = [link EXCEPT !.msg = NoPending]
    /\ UNCHANGED << caller, server_side >>


(***************************************************************************)
(* safe_send, byte by byte.  sock.sendall(data) is a loop of send() calls, *)
(* each of which puts some of the bytes that are left on the socket; no    *)
(* lock is held around it.  A line is cut into MaxSends parts, and a part  *)
(* on the wire says which thread wrote it.                                 *)
(***************************************************************************)
\* The thread that writes: the handler of a connection or the notifier of a
\* ride
HandlerThread(c) == [handler |-> c, notifier |-> 0]
NotifierThread(r) == [handler |-> None, notifier |-> r]

Piece(writer, part) == [from |-> writer, part |-> part]

\* the next n parts of a line of which left parts are still to be written
Pieces(writer, left, n) ==
    [i \in 1..n |-> Piece(writer, MaxSends - left + i)]

\* one send() call
send(sock, writer, left, n) ==
    [wire EXCEPT ![sock] = @ \o Pieces(writer, left, n)]

\* action == "get_profile", up to the call of safe_send(sock, response)
GetProfileSend(c, username) ==
    /\ Ready(c)
    /\ Goto(c, "safe_send",
            [action |-> "safe_send", sock |-> c, left |-> MaxSends,
             response |-> Resp("get_profile",
                               get_user_profile(users, username))])
    /\ UNCHANGED << users, rides, scheduled_rides, ratings, presence,
                    conn_state, close_cause, response, notifier, pushes,
                    accept_ok, wire, client_side >>

\* safe_send(sock, response) of a handler: one send() of its sendall
HandlerSend(c) ==
    /\ pc[c] = "safe_send"
    /\ \E n \in 1..local[c].left :
        /\ wire' = send(local[c].sock, HandlerThread(c), local[c].left, n)
        /\ IF n = local[c].left
             THEN Return(c, local[c].response)
             ELSE /\ local' = [local EXCEPT ![c].left = @ - n]
                  /\ UNCHANGED << pc, response, requests, answered >>
    /\ UNCHANGED << users, rides, scheduled_rides, ratings, presence,
                    conn_state, close_cause, notifier, pushes, accept_ok,
                    client_side >>

\* one turn of "for username in drivers", up to the call of sendall
NotifySendBegin(r) ==
    /\ r \in 1..Len(notifier)
    /\ notifier[r].pc = "send"
    /\ LET username == Head(notifier[r].drivers)
           rest == Tail(notifier[r].drivers)
       IN  IF username \in DOMAIN connected_drivers
             THEN /\ pushes' = Sent(pushes,
                                    Push("new_ride",
                                         connected_drivers[username],
                                         username, r))
                  /\ notifier' = [notifier EXCEPT ![r] =
                        [@ EXCEPT !.pc = "sendall",
                                  !.sock = connected_drivers[username],
                                  !.left = MaxSends]]
             ELSE /\ pushes' = pushes
                  /\ notifier' = [notifier EXCEPT ![r] =
                        [@ EXCEPT !.pc = IF rest = << >> THEN "done"
                                         ELSE "send",
                                  !.drivers = rest]]
    /\ UNCHANGED << users, rides, scheduled_rides, ratings, presence,
                    conn_state, close_cause, pc, local, response, accept_ok,
                    requests, answered, wire, client_side >>

\* safe_send(sock, {"action": "new_ride", ...}): one send() of its sendall
NotifyWrite(r) ==
    /\ r \in 1..Len(notifier)
    /\ notifier[r].pc = "sendall"
    /\ \E n \in 1..notifier[r].left :
        LET rest == Tail(notifier[r].drivers)
        IN  /\ wire' = send(notifier[r].sock, NotifierThread(r),
                            notifier[r].left, n)
            /\ notifier' = [notifier EXCEPT ![r] =
                  IF n = notifier[r].left
                    THEN [@ EXCEPT !.pc = IF rest = << >> THEN "done"
                                          ELSE "send",
                                   !.drivers = rest,
                                   !.sock = None, !.left = 0]
                    ELSE [@ EXCEPT !.left = @ - n]]
    /\ UNCHANGED << users, rides, scheduled_rides, ratings, presence,
                    conn_state, close_cause, pc, local, response, pushes,
                    accept_ok, requests, answered, client_side >>


(***************************************************************************)
(* Initial states.  The registry and the connections start empty with the  *)
(* process; the users table is whatever the database file holds.           *)
(***************************************************************************)
InitServer ==
    /\ rides = << >>
    /\ connected_drivers = EmptyDict
    /\ connected_passengers = EmptyDict
    /\ driver_status = EmptyDict
    /\ conn_state = [c \in Conns |-> "connected"]
    /\ close_cause = [c \in Conns |-> None]
    /\ pc = [c \in Conns |-> "idle"]
    /\ local = [c \in Conns |-> NoLocal]
    /\ response = NoResponse
    /\ notifier = << >>
    /\ pushes = EmptyDict
    /\ accept_ok = << >>
    /\ requests = 0
    /\ answered = 0
    /\ scheduled_rides = << >>
    /\ ratings = << >>
    /\ wire = NoBytes
    /\ client = RealtimeClient
    /\ caller = NoCalls
    /\ link = NoLines

Driver(username) == UserRow(username, "pw", "Hamra", "driver", SchedMon)
Passenger(username) == UserRow(username, "pw", "Hamra", "passenger", SchedEmpty)

(***************************************************************************)
(* SpecRide: the ride lifecycle between two registered drivers and one     *)
(* passenger, with logins, status changes and disconnects in between       *)
(***************************************************************************)
\* The server has just started, or p1 has already logged in on c3.
InitRide ==
    /\ users = << Driver("d1"), Driver("d2"), Passenger("p1") >>
    /\ rides = << >>
    /\ connected_drivers = EmptyDict
    /\ connected_passengers \in {EmptyDict, DictPut(EmptyDict, "p1", "c3")}
    /\ driver_status = EmptyDict
    /\ conn_state = [c \in Conns |-> "connected"]
    /\ close_cause = [c \in Conns |-> None]
    /\ pc = [c \in Conns |-> "idle"]
    /\ local = [c \in Conns |-> NoLocal]
    /\ response = NoResponse
    /\ notifier = << >>
    /\ pushes = EmptyDict
    /\ accept_ok = << >>
    /\ requests = 0
    /\ answered = 0
    /\ scheduled_rides = << >>
    /\ ratings = << >>
    /\ wire = NoBytes
    /\ client = RealtimeClient
    /\ caller = NoCalls
    /\ link = NoLines

\* Each client sends its own requests: c1 is d1's, c2 is d2's, c3 is p1's.
DriverClients ==
    {[conn |-> "c1", username |-> "d1", ip |-> "ip1", port |-> "5001"],
     [conn |-> "c2", username |-> "d2", ip |-> "ip2", port |-> "5002"]}

PassengerClients == {[conn |-> "c3", username |-> "p1"]}

RideInputs == {RideRequest("p1", "Hamra", T0805, 0, None, FALSE)}

\* Both drivers log in, accept and complete; d1 also switches to dnd and
\* the passenger may leave, which is what the matcher and the pushes react to.
NextRide ==
    \/ \E k \in DriverClients \cup PassengerClients :
            Login(k.conn, k.username, "pw")
    \/ \E c \in Conns : LoginStatus(c)
    \/ SetStatus("c1", "d1", "dnd")
    \/ \E c \in Conns : SetStatusWrite(c)
    \/ \E k \in PassengerClients, rq \in RideInputs : CreateRide(k.conn, rq)
    \/ \E r \in 1..MaxRides : NotifyMatch(r)
    \/ \E r \in 1..MaxRides : NotifySend(r)
    \/ \E k \in DriverClients, r \in 1..MaxRides :
            AcceptRide(k.conn, AcceptRequest(r, k.username, k.ip, k.port))
    \/ \E c \in Conns : AcceptRideNotify(c)
    \/ \E k \in DriverClients, r \in 1..MaxRides :
            CompleteRide(k.conn, CompleteRequest(r, k.username))
    \/ \E c \in Conns : CompleteRideNotify(c)
    \/ \E k \in PassengerClients : Disconnect(k.conn, k.username)
    \/ \E c \in Conns : DisconnectRest(c)
    \/ \E c \in Conns : LoopExit(c)

SpecRide == InitRide /\ [][NextRide]_vars


(***************************************************************************)
(* SpecAccept: what one ride row goes through.  d1 logs in, p1 asks for    *)
(* rides, and the drivers' clients accept, decline and complete them; an   *)
(* accept may carry its ride_id as text and may leave out ip and port.     *)
(* p1's client may go away without a disconnect, which leaves its closed   *)
(* socket in connected_passengers.                                         *)
(***************************************************************************)
AcceptInputs(k, r) ==
    {AcceptRequest(r, k.username, k.ip, k.port),
     AcceptRequest(r, k.username, None, None),
     AcceptRequestText(r, k.username, k.ip, k.port)}

NextAccept ==
    \/ Login("c1", "d1", "pw")
    \/ LoginStatus("c1")
    \/ \E rq \in RideInputs : CreateRide("c3", rq)
    \/ \E k \in DriverClients, r \in 1..MaxRides :
            \E rq \in AcceptInputs(k, r) : AcceptRide(k.conn, rq)
    \/ \E c \in Conns : AcceptRideNotify(c)
    \/ \E r \in 1..MaxRides : DeclineRide("c1", DeclineRequest(r, "d1"))
    \/ DeclineRideNotify("c1")
    \/ \E r \in 1..MaxRides : CompleteRide("c1", CompleteRequest(r, "d1"))
    \/ CompleteRideNotify("c1")
    \/ ConnectionEnd("c3", "peer_close")

SpecAccept == InitRide /\ [][NextAccept]_vars


(***************************************************************************)
(* SpecPresence: the registry under register, login, update_profile,       *)
(* set_status and disconnect requests of two connections, and connections  *)
(* that end without a disconnect                                           *)
(***************************************************************************)
InitPresence ==
    /\ InitServer
    /\ users = << Driver("d1"), Passenger("p1") >>

PresenceConns == {"c1", "c2"}

RegisterInputs ==
    {UserRow(u, "pw", "Hamra", role, SchedMon) :
        u \in {"d1", "d2"}, role \in {"driver", "passenger"}}

ProfileUpdate(username, fields, area, password, weekly_schedule, role) ==
    [username |-> username, fields |-> fields, area |-> area,
     password |-> password, weekly_schedule |-> weekly_schedule,
     role |-> role]

UpdateInputs ==
    {ProfileUpdate(u, f, "Verdun", "pw", SchedTue, "passenger") :
        u \in {"d1", "d2"}, f \in {{"role"}, {"area", "role"}}}

NextPresence ==
    \/ \E c \in PresenceConns, data \in RegisterInputs : Register(c, data)
    \/ \E c \in PresenceConns, u \in Names, pw \in Passwords : Login(c, u, pw)
    \/ \E c \in PresenceConns : LoginStatus(c)
    \/ \E c \in PresenceConns, data \in UpdateInputs : UpdateProfile(c, data)
    \/ \E c \in PresenceConns, u \in {"d1", None}, v \in {"dnd", "busy"} :
            SetStatus(c, u, v)
    \/ \E c \in PresenceConns : SetStatusWrite(c)
    \/ \E c \in PresenceConns, u \in Names \cup {None} : Disconnect(c, u)
    \/ \E c \in PresenceConns : DisconnectRest(c)
    \/ \E c \in PresenceConns : LoopExit(c)
    \/ \E c \in PresenceConns, cause \in CloseCauses : ConnectionEnd(c, cause)

SpecPresence == InitPresence /\ [][NextPresence]_vars

(***************************************************************************)
(* SpecLine: the request lines of two connections, among them lines that   *)
(* are no JSON, requests without a required key, and lines that follow a   *)
(* disconnect in the same buffer                                           *)
(***************************************************************************)
NextLine ==
    \/ \E c \in PresenceConns : Login(c, "d1", "pw")
    \/ \E c \in PresenceConns : LoginStatus(c)
    \/ \E c \in PresenceConns, u \in {"d1", "d2"} : GetProfile(c, u)
    \/ \E c \in PresenceConns : SetStatus(c, None, "dnd")
    \/ \E c \in PresenceConns, a \in SubscriptedActions : KeyErrorRequest(c, a)
    \/ \E c \in PresenceConns, u \in {"d1", None} : Disconnect(c, u)
    \/ \E c \in PresenceConns : DisconnectRest(c)
    \/ \E c \in PresenceConns : LoopExit(c)
    \/ \E c \in PresenceConns, cause \in CloseCauses : ConnectionEnd(c, cause)

SpecLine == InitPresence /\ [][NextLine]_vars

(***************************************************************************)
(* SpecMatch: the create_ride handler over the users tables and registry   *)
(* states the matcher tells apart.  The notifier threads it starts are     *)
(* followed in SpecRide.                                                   *)
(***************************************************************************)
\* d1 is varied over what decides whether it is a schedule candidate for a
\* Monday 08:05 ride in Hamra; d2 always is one.
MatchProfiles ==
    {[area |-> "Hamra", weekly_schedule |-> SchedMon],
     [area |-> "Hamra", weekly_schedule |-> SchedMonTwice],
     [area |-> "Hamra", weekly_schedule |-> SchedTue],
     [area |-> "Hamra", weekly_schedule |-> SchedBadTime],
     [area |-> "Verdun", weekly_schedule |-> SchedMon]}

MatchUserTables ==
    {<< UserRow("d1", "pw", p.area, "driver", p.weekly_schedule),
        Driver("d2"), Passenger("p1") >> : p \in MatchProfiles}

\* Dictionaries over some of the keys, with values in vals
Dicts(keys, vals) == UNION {[ks -> vals] : ks \in SUBSET keys}

InitMatch ==
    /\ users \in MatchUserTables
    /\ rides = << >>
    /\ connected_drivers \in Dicts({"d1", "d2"}, {"c1"})
    /\ connected_passengers = EmptyDict
    /\ driver_status \in Dicts({"d1", "d2"}, {"available", "dnd"})
    /\ conn_state = [c \in Conns |-> "connected"]
    /\ close_cause = [c \in Conns |-> None]
    /\ pc = [c \in Conns |-> "idle"]
    /\ local = [c \in Conns |-> NoLocal]
    /\ response = NoResponse
    /\ notifier = << >>
    /\ pushes = EmptyDict
    /\ accept_ok = << >>
    /\ requests = 0
    /\ answered = 0
    /\ scheduled_rides = << >>
    /\ ratings = << >>
    /\ wire = NoBytes
    /\ client = RealtimeClient
    /\ caller = NoCalls
    /\ link = NoLines

MatchRideInputs ==
    {RideRequest("p1", "Hamra", T0805, 0, target, po) :
        target \in {None, "d1"}, po \in BOOLEAN}
      \cup {RideRequest("p1", "Hamra", TBad, 0, None, FALSE)}

NextMatch == \E rq \in MatchRideInputs : CreateRide("c3", rq)

SpecMatch == InitMatch /\ [][NextMatch]_vars


(***************************************************************************)
(* SpecSched: scheduled rides.  The users table and the registry are drawn *)
(* at the start; p1 books drivers for a date and a time, and the clients   *)
(* of d1, d2 and p1 accept, decline and cancel the bookings.               *)
(***************************************************************************)
\* d1 drives in Hamra on Monday or on Tuesday mornings, d2 on Mondays
SchedUserTables ==
    {<< UserRow("d1", "pw", "Hamra", "driver", sched),
        Driver("d2"), Passenger("p1") >> : sched \in {SchedMon, SchedTue}}

InitSched ==
    /\ users \in SchedUserTables
    /\ rides = << >>
    /\ scheduled_rides = << >>
    /\ ratings = << >>
    /\ wire = NoBytes
    /\ client = RealtimeClient
    /\ caller = NoCalls
    /\ link = NoLines
    /\ connected_drivers \in Dicts({"d1"}, {"c1"})
    /\ connected_passengers \in Dicts({"p1"}, {"c3"})
    /\ driver_status \in Dicts({"d1"}, {"dnd"})
    /\ conn_state = [c \in Conns |-> "connected"]
    /\ close_cause = [c \in Conns |-> None]
    /\ pc = [c \in Conns |-> "idle"]
    /\ local = [c \in Conns |-> NoLocal]
    /\ response = NoResponse
    /\ notifier = << >>
    /\ pushes = EmptyDict
    /\ accept_ok = << >>
    /\ requests = 0
    /\ answered = 0

ScheduledInputs ==
    {ScheduledRequest("p1", d, "Hamra", date, T0805) :
        d \in {"d1", "d2"}, date \in {DateMon, DateTue}}
      \cup {ScheduledRequest("p1", None, "Hamra", DateMon, T0805),
            ScheduledRequest("p1", "d1", "Hamra", DateBad, T0805),
            ScheduledRequest("p1", "d1", "Hamra", DateMon, TBad)}

CancelInputs ==
    {[ride_id |-> r, id_kind |-> "int", username |-> u] :
        r \in 1..MaxRides, u \in {"p1", "d1"}}
      \cup {[ride_id |-> 1, id_kind |-> "bad", username |-> "p1"]}

NextSched ==
    \/ \E rq \in ScheduledInputs : CreateScheduledRide("c3", rq)
    \/ \E k \in DriverClients, r \in 1..MaxRides :
            DriverAcceptScheduledRide(k.conn, r, "int", k.username)
    \/ \E r \in 1..MaxRides :
            DriverDeclineScheduledRide("c1", r, "int", "d1")
    \/ \E q \in CancelInputs :
            PassengerCancelScheduledRide("c3", q.ride_id, q.id_kind, q.username)
    \/ \E c \in Conns : ScheduledUpdate(c)

SpecSched == InitSched /\ [][NextSched]_vars


(***************************************************************************)
(* SpecLogin: the sessions of one driver.  d1 logs in with a good or a bad *)
(* password on either of two connections, sets its status, disconnects or  *)
(* drops, and p1 books d1 for a Monday, which is a push to d1's socket.    *)
(***************************************************************************)
LoginNames == {"d1", "d2"}

BookD1 == ScheduledRequest("p1", "d1", "Hamra", DateMon, T0805)

NextLogin ==
    \/ \E c \in PresenceConns, u \in LoginNames, pw \in Passwords :
            Login(c, u, pw)
    \/ \E c \in PresenceConns : LoginStatus(c)
    \/ \E c \in PresenceConns, v \in {"dnd", "busy"} : SetStatus(c, "d1", v)
    \/ \E c \in PresenceConns : SetStatusWrite(c)
    \/ \E c \in PresenceConns : Disconnect(c, "d1")
    \/ \E c \in PresenceConns : DisconnectRest(c)
    \/ \E c \in PresenceConns : LoopExit(c)
    \/ \E c \in PresenceConns : ConnectionEnd(c, "peer_close")
    \/ CreateScheduledRide("c3", BookD1)

SpecLogin == InitPresence /\ [][NextLogin]_vars


(***************************************************************************)
(* The wire: the keys of the JSON objects the server writes, and the test  *)
(* the client's listener applies to an object it has read.                 *)
(***************************************************************************)
PushEvents ==
    {"new_ride", "ride_accepted", "ride_declined", "ride_completed",
     "scheduled_ride_created", "scheduled_ride_updated"}

\* The keys of a push object, by push site
PushFields(m) ==
    CASE m.action = "new_ride" ->
            {"action", "ride_id", "passenger_username", "area", "time",
             "weekday"}
      [] m.action = "ride_accepted" ->
            {"action", "ride_id", "driver_username", "driver_ip",
             "driver_port"}
      [] m.action = "ride_declined" ->
            {"action", "ride_id", "driver_username"}
      [] m.action = "ride_completed" ->
            {"action", "ride_id", "passenger_username", "driver_username"}
      [] m.action = "scheduled_ride_created" ->
            {"action", "scheduled_ride_id", "ride"}
      [] m.action = "scheduled_ride_updated" /\ m.status = "canceled" ->
            {"action", "ride_id", "status", "passenger_username"}
      [] m.action = "scheduled_ride_updated" /\ m.status # "canceled" ->
            {"action", "ride_id", "status", "driver_username"}

\* The keys of a response object, by handler and outcome
ResponseFields(r) ==
    CASE r.re = "create_ride" /\ r.status = "success" ->
            {"status", "message", "ride_id"}
      [] r.re = "create_scheduled_ride" /\ r.status = "success" ->
            {"status", "scheduled_ride_id", "ride_id", "message"}
      [] r.re = "set_status" /\ r.status = "success" ->
            {"status", "status_value"}
      [] r.re = "login" /\ r.status = "success" ->
            {"status", "message", "name", "email", "username", "area",
             "role", "weekly_schedule", "preferences"}
      [] OTHER -> {"status", "message"}

\* (a variant that looks at the status key alone)
has_status(fields) == "status" \in fields

\* _listener_loop: ("status" in msg) and ("action" not in msg)
is_response(fields) == "status" \in fields /\ "action" \notin fields

(***************************************************************************)
(* SpecPush: every push site of the server.  d1 and p1 are logged in or    *)
(* not when it starts; p1 asks for rides and books d1, and d1 accepts,     *)
(* declines and completes.                                                 *)
(***************************************************************************)
InitPush ==
    /\ users = << Driver("d1"), Driver("d2"), Passenger("p1") >>
    /\ rides = << >>
    /\ scheduled_rides = << >>
    /\ ratings = << >>
    /\ wire = NoBytes
    /\ client = RealtimeClient
    /\ caller = NoCalls
    /\ link = NoLines
    /\ connected_drivers \in Dicts({"d1"}, {"c1"})
    /\ connected_passengers \in Dicts({"p1"}, {"c3"})
    /\ driver_status = [u \in DOMAIN connected_drivers |-> "available"]
    /\ conn_state = [c \in Conns |-> "connected"]
    /\ close_cause = [c \in Conns |-> None]
    /\ pc = [c \in Conns |-> "idle"]
    /\ local = [c \in Conns |-> NoLocal]
    /\ response = NoResponse
    /\ notifier = << >>
    /\ pushes = EmptyDict
    /\ accept_ok = << >>
    /\ requests = 0
    /\ answered = 0

NextPush ==
    \/ \E rq \in RideInputs : CreateRide("c3", rq)
    \/ \E r \in 1..MaxRides : NotifyMatch(r)
    \/ \E r \in 1..MaxRides : NotifySend(r)
    \/ \E r \in 1..MaxRides :
            AcceptRide("c1", AcceptRequest(r, "d1", "ip1", "5001"))
    \/ AcceptRideNotify("c1")
    \/ \E r \in 1..MaxRides : DeclineRide("c1", DeclineRequest(r, "d1"))
    \/ DeclineRideNotify("c1")
    \/ \E r \in 1..MaxRides : CompleteRide("c1", CompleteRequest(r, "d1"))
    \/ CompleteRideNotify("c1")
    \/ CreateScheduledRide("c3", BookD1)
    \/ \E r \in 1..MaxRides : DriverAcceptScheduledRide("c1", r, "int", "d1")
    \/ \E r \in 1..MaxRides : DriverDeclineScheduledRide("c1", r, "int", "d1")
    \/ \E r \in 1..MaxRides : PassengerCancelScheduledRide("c3", r, "int", "p1")
    \/ \E c \in {"c1", "c3"} : ScheduledUpdate(c)

SpecPush == InitPush /\ [][NextPush]_vars


(***************************************************************************)
(* SpecNotify: the notifier and a schedule that changes.  d1 logs in and   *)
(* rewrites its weekly_schedule, p1 asks for Monday 08:05 rides, and the   *)
(* notifier thread of each ride pushes new_ride to the matched drivers.    *)
(***************************************************************************)
ScheduleUpdates ==
    {ProfileUpdate("d1", {"weekly_schedule"}, "Hamra", "pw", sched, "driver") :
        sched \in {SchedMonTwice, SchedTue}}

NextNotify ==
    \/ Login("c1", "d1", "pw")
    \/ LoginStatus("c1")
    \/ \E data \in ScheduleUpdates : UpdateProfile("c1", data)
    \/ \E rq \in RideInputs : CreateRide("c3", rq)
    \/ \E r \in 1..MaxRides : NotifyMatch(r)
    \/ \E r \in 1..MaxRides : NotifySend(r)

SpecNotify == InitRide /\ [][NextNotify]_vars


(***************************************************************************)
(* SpecWindow: the match window at its edges.  d1 is logged in and         *)
(* available and has one Monday entry, drawn from times at the edges of    *)
(* the windows of the target times p1 asks for.                            *)
(***************************************************************************)
Seconds(s) == TimeStr("int", 0, 0, s)

EntryTimes == {Seconds(s) : s \in {0, 900, 901, 28800, 85798, 85799, 86399}}

TargetTimes ==
    {Seconds(t) : t \in {300, 28199, 28200, 29100, 29400, 29401, 30000, 86399}}

InitWindow ==
    /\ users \in {<< UserRow("d1", "pw", "Hamra", "driver",
                             << SchedItem("Monday", e) >>),
                     Passenger("p1") >> : e \in EntryTimes}
    /\ rides = << >>
    /\ scheduled_rides = << >>
    /\ ratings = << >>
    /\ wire = NoBytes
    /\ client = RealtimeClient
    /\ caller = NoCalls
    /\ link = NoLines
    /\ connected_drivers = DictPut(EmptyDict, "d1", "c1")
    /\ connected_passengers = EmptyDict
    /\ driver_status = DictPut(EmptyDict, "d1", "available")
    /\ conn_state = [c \in Conns |-> "connected"]
    /\ close_cause = [c \in Conns |-> None]
    /\ pc = [c \in Conns |-> "idle"]
    /\ local = [c \in Conns |-> NoLocal]
    /\ response = NoResponse
    /\ notifier = << >>
    /\ pushes = EmptyDict
    /\ accept_ok = << >>
    /\ requests = 0
    /\ answered = 0

WindowRideInputs ==
    {RideRequest("p1", "Hamra", t, wd, None, FALSE) :
        t \in TargetTimes, wd \in {0, 1}}

NextWindow == \E rq \in WindowRideInputs : CreateRide("c3", rq)

SpecWindow == InitWindow /\ [][NextWindow]_vars


(***************************************************************************)
(* SpecHistory: one ride of p1 is taken by a driver, by d1 or by a request *)
(* whose username is the empty string; ratings of the ride are submitted   *)
(* and the two parties read their history                                  *)
(***************************************************************************)
InitHistory ==
    /\ users = << Driver("d1"), Driver("d2"), Passenger("p1") >>
    /\ rides = << NewRide("p1", "Hamra", 29100, 0) >>
    /\ connected_drivers = EmptyDict
    /\ connected_passengers = EmptyDict
    /\ driver_status = EmptyDict
    /\ conn_state = [c \in Conns |-> "connected"]
    /\ close_cause = [c \in Conns |-> None]
    /\ pc = [c \in Conns |-> "idle"]
    /\ local = [c \in Conns |-> NoLocal]
    /\ response = NoResponse
    /\ notifier = << >>
    /\ pushes = EmptyDict
    /\ accept_ok = << >>
    /\ requests = 0
    /\ answered = 0
    /\ scheduled_rides = << >>
    /\ ratings = << >>
    /\ wire = NoBytes
    /\ client = RealtimeClient
    /\ caller = NoCalls
    /\ link = NoLines

RatingInputs ==
    { Rating(1, "p1", "d1", Score("number", 1)),
      Rating(1, "p1", "d1", Score("number", 5)),
      Rating(1, "d1", "p1", Score("number", 3)),
      Rating(1, "d1", "p1", Score("number", 4)),
      Rating(1, "p1", "", Score("number", 5)),
      Rating(1, "p1", "d1", ScoreText),
      Rating(2, "p1", "d1", Score("number", 2)),
      Rating(1, "p1", "d1", NoScore) }

HistoryQueries ==
    { << "p1", "passenger" >>, << "d1", "driver" >>, << "", "driver" >>,
      << "p1", "admin" >> }

NextHistory ==
    \/ \E u \in {"d1", ""} : AcceptRide("c1", AcceptRequest(1, u, None, None))
    \/ AcceptRideNotify("c1")
    \/ \E data \in RatingInputs : SubmitRating("c3", data)
    \/ \E c \in {"c1", "c3"}, q \in HistoryQueries :
            GetRideHistory(c, q[1], q[2])

SpecHistory == InitHistory /\ [][NextHistory]_vars


(***************************************************************************)
(* SpecWire: d1 is logged in on c1 and p1 on c3.  p1 asks for rides, whose *)
(* notifier threads write new_ride to c1's socket, while c1's own handler  *)
(* answers d1's requests on the same socket.  The writes to c1's socket    *)
(* are followed send() by send(); c3's socket has one writer only.         *)
(***************************************************************************)
InitWire ==
    /\ users = << Driver("d1"), Driver("d2"), Passenger("p1") >>
    /\ rides = << >>
    /\ scheduled_rides = << >>
    /\ ratings = << >>
    /\ wire = NoBytes
    /\ client = RealtimeClient
    /\ caller = NoCalls
    /\ link = NoLines
    /\ connected_drivers = DictPut(EmptyDict, "d1", "c1")
    /\ connected_passengers = DictPut(EmptyDict, "p1", "c3")
    /\ driver_status = DictPut(EmptyDict, "d1", "available")
    /\ conn_state = [c \in Conns |-> "connected"]
    /\ close_cause = [c \in Conns |-> None]
    /\ pc = [c \in Conns |-> "idle"]
    /\ local = [c \in Conns |-> NoLocal]
    /\ response = NoResponse
    /\ notifier = << >>
    /\ pushes = EmptyDict
    /\ accept_ok = << >>
    /\ requests = 0
    /\ answered = 0

NextWire ==
    \/ \E rq \in RideInputs : CreateRide("c3", rq)
    \/ \E r \in 1..MaxRides : NotifyMatch(r)
    \/ \E r \in 1..MaxRides : NotifySendBegin(r)
    \/ \E r \in 1..MaxRides : NotifyWrite(r)
    \/ \E u \in {"d1", "d2"} : GetProfileSend("c1", u)
    \/ HandlerSend("c1")

SpecWire == InitWire /\ [][NextWire]_vars


(***************************************************************************)
(* SpecPreferred: p1 asks for rides that only d1 may be offered            *)
(* (preferred_only); d1 is logged in or not; d2 reads the pending rides of *)
(* the area and both drivers send accept_ride                              *)
(***************************************************************************)
PreferredInputs == {RideRequest("p1", "Hamra", T0805, 0, "d1", TRUE)}

NextPreferred ==
    \/ \E rq \in PreferredInputs : CreateRide("c3", rq)
    \/ \E r \in 1..MaxRides : NotifyMatch(r)
    \/ \E r \in 1..MaxRides : NotifySend(r)
    \/ GetPendingRides("c2", "Hamra")
    \/ \E k \in DriverClients, r \in 1..MaxRides :
            AcceptRide(k.conn, AcceptRequest(r, k.username, k.ip, k.port))
    \/ \E c \in {"c1", "c2"} : AcceptRideNotify(c)

SpecPreferred == InitPush /\ [][NextPreferred]_vars


(***************************************************************************)
(* SpecSchedule: d1 drives in Hamra on Mondays at 08:00; the schedule d2   *)
(* stored is a good one, has a time that does not parse, a key that is no  *)
(* weekday, or is no JSON, and d2's area is Hamra or Verdun.  p1 asks for  *)
(* rides in Hamra and searches the drivers of a date.                      *)
(***************************************************************************)
StoredSchedules == {SchedMon, SchedBadTime, SchedBadDay, SchedNotJson}

InitSchedule ==
    /\ \E area \in Areas, schedule \in StoredSchedules :
            users = << Driver("d1"),
                       UserRow("d2", "pw", area, "driver", schedule),
                       Passenger("p1") >>
    /\ rides = << >>
    /\ scheduled_rides = << >>
    /\ ratings = << >>
    /\ wire = NoBytes
    /\ client = RealtimeClient
    /\ caller = NoCalls
    /\ link = NoLines
    /\ connected_drivers = DictPut(DictPut(EmptyDict, "d1", "c1"), "d2", "c2")
    /\ connected_passengers = DictPut(EmptyDict, "p1", "c3")
    /\ driver_status = [u \in {"d1", "d2"} |-> "available"]
    /\ conn_state = [c \in Conns |-> "connected"]
    /\ close_cause = [c \in Conns |-> None]
    /\ pc = [c \in Conns |-> "idle"]
    /\ local = [c \in Conns |-> NoLocal]
    /\ response = NoResponse
    /\ notifier = << >>
    /\ pushes = EmptyDict
    /\ accept_ok = << >>
    /\ requests = 0
    /\ answered = 0

ScheduleRideInputs ==
    {RideRequest("p1", "Hamra", t, 0, None, FALSE) : t \in {T0805, TBad}}

SearchInputs ==
    {SearchRequest("Hamra", date, T0805) : date \in {DateMon, DateTue, DateBad}}

NextSchedule ==
    \/ \E rq \in ScheduleRideInputs : CreateRide("c3", rq)
    \/ \E r \in 1..MaxRides : NotifyMatch(r)
    \/ \E r \in 1..MaxRides : NotifySend(r)
    \/ \E rq \in SearchInputs : SearchScheduledDrivers("c3", rq)

SpecSchedule == InitSchedule /\ [][NextSchedule]_vars


(***************************************************************************)
(* SpecClient: two threads of one program call _send_and_wait on the same  *)
(* RealtimeClient; the server answers the requests in the order it reads   *)
(* them and the listener thread hands the responses over                   *)
(***************************************************************************)
\* The program has connected; no request has been sent yet
InitClient ==
    /\ InitServer
    /\ users = << Passenger("p1") >>

NextClient ==
    \/ \E t \in Threads : Call(t)
    \/ \E t \in Threads : Clear(t)
    \/ \E t \in Threads : Reset(t)
    \/ \E t \in Threads : Sendall(t)
    \/ \E t \in Threads : Woken(t)
    \/ \E t \in Threads : TimedOut(t)
    \/ \E t \in Threads : ReturnPending(t)
    \/ Serve
    \/ ListenerStore
    \/ ListenerSet

SpecClient == InitClient /\ [][NextClient]_vars


(***************************************************************************)
(* Properties of the matcher and of create_ride (SpecMatch)                *)
(***************************************************************************)
MatchQueries(targets, preferred_only) ==
    [area : Areas, weekday : {0, 1},
     target_seconds : {time_to_seconds(T0805), time_to_seconds(T0820)},
     target_driver : targets, preferred_only : {preferred_only}]

Matched(q) ==
    get_matched_available_drivers(q.area, q.weekday, q.target_seconds,
                                  q.target_driver, q.preferred_only)

\* u is a driver of the area whose schedule has an entry on the weekday
\* with a time in the window around the target time
IsCandidate(u, area, weekday, target_seconds) ==
    \E i \in 1..Len(users) :
        /\ users[i].username = u
        /\ users[i].role = "driver"
        /\ users[i].area = area
        /\ \E j \in 1..Len(users[i].weekly_schedule) :
              LET item == users[i].weekly_schedule[j]
                  sec == time_to_seconds(item.time)
              IN  /\ Lower(item.day) = (IF weekday = 0 THEN "monday"
                                                      ELSE "tuesday")
                  /\ sec # TimeError
                  /\ sec >= target_seconds - 600
                  /\ sec <= target_seconds + 600

\* u has a socket in connected_drivers and is not on dnd
IsOnlineAvailable(u) ==
    /\ u \in DOMAIN connected_drivers
    /\ (u \in DOMAIN driver_status => driver_status[u] = "available")

IsEligible(u, area, weekday, target_seconds) ==
    IsCandidate(u, area, weekday, target_seconds) /\ IsOnlineAvailable(u)

EligibleSet(area, weekday, target_seconds) ==
    {u \in Names : IsEligible(u, area, weekday, target_seconds)}

C1_StrictResult ==
    \A q \in MatchQueries(Names, TRUE) :
        Matched(q) =
            IF IsEligible(q.target_driver, q.area, q.weekday,
                          q.target_seconds)
              THEN << q.target_driver >> ELSE << >>

C1_StrictError ==
    \A rq \in MatchRideInputs :
        (/\ CreateRide("c3", rq)
         /\ rq.preferred_only
         /\ rq.target_driver # None
         /\ ~IsEligible(rq.target_driver, rq.area, rq.weekday,
                        time_to_seconds(rq.time)))
          => (response'.status = "error" /\ rides' = rides)

\* C1: in strict mode (preferred_only and a target driver) the matcher
\* returns exactly [target] when the target is a schedule candidate that is
\* online and available, and the empty list in every other case, whoever
\* else is online; create_ride then answers error and adds no row.
C1_Strict == []C1_StrictResult /\ [][C1_StrictError]_vars

\* A strict create_ride for d1 was answered error while d1 is a candidate
\* but offline and d2 is a candidate, online and available.
C1_Witness ==
    /\ response.re = "create_ride"
    /\ response.status = "error"
    /\ response.rq.preferred_only
    /\ response.rq.target_driver = "d1"
    /\ IsCandidate("d1", "Hamra", 0, time_to_seconds(response.rq.time))
    /\ "d1" \notin DOMAIN connected_drivers
    /\ IsEligible("d2", "Hamra", 0, time_to_seconds(response.rq.time))

\* C2: without preferred_only the matcher returns exactly [target] when a
\* target is given and is an online, available schedule candidate, and
\* otherwise exactly the set of online, available schedule candidates
\* (possibly empty).
C2_Normal ==
    \A q \in MatchQueries(Names \cup {None}, FALSE) :
        IF /\ q.target_driver # None
           /\ IsEligible(q.target_driver, q.area, q.weekday,
                         q.target_seconds)
          THEN Matched(q) = << q.target_driver >>
          ELSE Range(Matched(q)) =
                  EligibleSet(q.area, q.weekday, q.target_seconds)

\* A create_ride that prefers d1 succeeded through the fallback: d1 is on
\* dnd, d2 is an online and available candidate.
C2_Witness ==
    /\ response.re = "create_ride"
    /\ response.status = "success"
    /\ ~response.rq.preferred_only
    /\ response.rq.target_driver = "d1"
    /\ "d1" \in DOMAIN connected_drivers
    /\ "d1" \in DOMAIN driver_status
    /\ driver_status["d1"] = "dnd"
    /\ notifier[response.ride_id].matched = {"d2"}

\* C3: a create_ride whose matched set is empty answers error, adds no
\* ride row and starts no notification.
C3_NoRowOnEmptyMatch ==
    [][\A c \in Conns, rq \in MatchRideInputs :
          (/\ CreateRide(c, rq)
           /\ time_to_seconds(rq.time) # TimeError
           /\ AvailableDrivers(rq) = << >>)
            => /\ response'.conn = c
               /\ response'.status = "error"
               /\ rides' = rides
               /\ notifier' = notifier
               /\ pushes' = pushes]_vars

\* A create_ride with no target was answered error: d1 and d2 are both
\* schedule candidates, d1 is offline and d2 is on dnd.
C3_Witness ==
    /\ response.re = "create_ride"
    /\ response.status = "error"
    /\ response.rq.target_driver = None
    /\ time_to_seconds(response.rq.time) # TimeError
    /\ IsCandidate("d1", "Hamra", 0, time_to_seconds(response.rq.time))
    /\ IsCandidate("d2", "Hamra", 0, time_to_seconds(response.rq.time))
    /\ "d1" \notin DOMAIN connected_drivers
    /\ "d2" \in DOMAIN connected_drivers
    /\ DictGet(driver_status, "d2", "available") = "dnd"
    /\ rides = << >>


(***************************************************************************)
(* Properties of the ride lifecycle (SpecRide)                             *)
(***************************************************************************)
\* How many pushes of this kind were sent for the ride, to any socket
RECURSIVE SumCounts(_, _)
SumCounts(log, msgs) ==
    IF msgs = {} THEN 0
    ELSE LET m == CHOOSE x \in msgs : TRUE
         IN  log[m] + SumCounts(log, msgs \ {m})

PushCountIn(log, action, ride_id) ==
    SumCounts(log, {m \in DOMAIN log :
                       m.action = action /\ m.ride_id = ride_id})

PushCount(action, ride_id) == PushCountIn(pushes, action, ride_id)

PushedTo(action, username, ride_id) ==
    \E m \in DOMAIN pushes :
        m.action = action /\ m.username = username /\ m.ride_id = ride_id

\* C4: once the notifier of a ride has run, every driver of the matched set
\* the handler persisted the ride for was sent a new_ride push with the
\* ride's id, whatever happened to the registry in between.
C4_AllMatchedNotified ==
    \A r \in 1..Len(notifier) :
        notifier[r].pc = "done" =>
            \A u \in notifier[r].matched : PushedTo("new_ride", u, r)

AcceptsOf(ride_id) ==
    {i \in 1..Len(accept_ok) : accept_ok[i].ride_id = ride_id}

C5_OneWinner ==
    \A r \in RideIds :
        /\ Cardinality(AcceptsOf(r)) <= 1
        /\ rides[r].status = "pending" =>
              /\ AcceptsOf(r) = {}
              /\ rides[r].driver_username = None
              /\ rides[r].driver_ip = None
              /\ rides[r].driver_port = None
        /\ rides[r].status \in {"accepted", "completed"} =>
              \E i \in AcceptsOf(r) :
                  /\ rides[r].driver_username = accept_ok[i].username
                  /\ rides[r].driver_ip = accept_ok[i].driver_ip
                  /\ rides[r].driver_port = accept_ok[i].driver_port
        /\ (/\ response.re = "accept_ride"
            /\ response.status = "success"
            /\ response.ride_id = r) =>
              \E i \in AcceptsOf(r) : accept_ok[i].conn = response.conn

C5_WinnerAndLoser ==
    \A k \in DriverClients, r \in 1..MaxRides :
        AcceptRide(k.conn, AcceptRequest(r, k.username, k.ip, k.port)) =>
            IF r \in RideIds /\ rides[r].status = "pending"
              THEN /\ pc'[k.conn] = "accept_notify"
                   /\ rides' = [rides EXCEPT ![r] =
                                  [@ EXCEPT !.status = "accepted",
                                            !.driver_username = k.username,
                                            !.driver_ip = k.ip,
                                            !.driver_port = k.port]]
              ELSE /\ response' = [conn |-> k.conn, re |-> "accept_ride",
                                   status |-> "error", ride_id |-> r,
                                   rq |-> NoLocal]
                   /\ rides' = rides

\* C5: of the accept_ride calls for one ride at most one succeeds, the ride
\* then carries that caller's driver_username, driver_ip and driver_port
\* together, and a call that finds the ride taken is answered error and
\* changes nothing.
C5_ConcurrentAccept == []C5_OneWinner /\ [][C5_WinnerAndLoser]_vars

\* d1's accept_ride on c1 has won and is still in flight when d2's
\* accept_ride on c2 for the same ride is answered error.
C5_Witness ==
    /\ Len(rides) >= 1
    /\ pc["c1"] = "accept_notify"
    /\ local["c1"].ride_id = 1
    /\ response = [conn |-> "c2", re |-> "accept_ride", status |-> "error",
                   ride_id |-> 1, rq |-> NoLocal]
    /\ rides[1].status = "accepted"
    /\ rides[1].driver_username = "d1"
    /\ rides[1].driver_ip = "ip1"
    /\ rides[1].driver_port = "5001"

\* C6: complete_ride goes on to success only from status accepted with the
\* caller as the ride's driver; otherwise it answers error, changes no ride
\* row and sends no push.
C6_CompleteGuard ==
    [][\A k \in DriverClients, r \in 1..MaxRides :
          CompleteRide(k.conn, CompleteRequest(r, k.username)) =>
              IF /\ r \in RideIds
                 /\ rides[r].status = "accepted"
                 /\ rides[r].driver_username = k.username
                THEN /\ pc'[k.conn] = "complete_notify"
                     /\ rides' = [rides EXCEPT ![r] =
                                    [@ EXCEPT !.status = "completed"]]
                ELSE /\ response' = [conn |-> k.conn, re |-> "complete_ride",
                                     status |-> "error", ride_id |-> r,
                                     rq |-> NoLocal]
                     /\ rides' = rides
                     /\ pushes' = pushes]_vars

\* d2's complete_ride for a ride that d1 has accepted was answered error and
\* the ride is still accepted by d1.
C6_Witness ==
    /\ Len(rides) >= 1
    /\ response = [conn |-> "c2", re |-> "complete_ride", status |-> "error",
                   ride_id |-> 1, rq |-> NoLocal]
    /\ rides[1].status = "accepted"
    /\ rides[1].driver_username = "d1"

\* C7 as claimed: a complete_ride that succeeded has sent exactly one
\* ride_completed push for the ride.
C7_PushedWheneverCompleted ==
    (response.re = "complete_ride" /\ response.status = "success") =>
        PushCount("ride_completed", response.ride_id) = 1

C7_AtMostOnce ==
    \A r \in RideIds :
        /\ PushCount("ride_completed", r) <= 1
        /\ PushCount("ride_completed", r) = 1 =>
              /\ rides[r].status = "completed"
              /\ PushedTo("ride_completed", rides[r].passenger_username, r)

C7_OnePushIfConnected ==
    \A c \in Conns :
        CompleteRideNotify(c) =>
            LET r == local[c].ride_id
            IN  /\ response'.status = "success"
                /\ PushCountIn(pushes', "ride_completed", r) =
                      IF rides[r].passenger_username
                            \in DOMAIN connected_passengers
                        THEN 1 ELSE 0

\* C7 amended: a complete_ride that succeeds sends one ride_completed push
\* to the passenger's socket if the passenger is in connected_passengers at
\* that moment and none otherwise; no ride ever gets a second one.
C7_CompletedPush == []C7_AtMostOnce /\ [][C7_OnePushIfConnected]_vars

\* d1 completed ride 1 and p1, connected on c3, was sent its one push.
C7_Witness ==
    /\ response = [conn |-> "c1", re |-> "complete_ride",
                   status |-> "success", ride_id |-> 1, rq |-> NoLocal]
    /\ \E m \in DOMAIN pushes :
          /\ m.action = "ride_completed"
          /\ m.to = "c3"
          /\ m.username = "p1"
          /\ m.ride_id = 1
    /\ PushCount("ride_completed", 1) = 1

(***************************************************************************)
(* Properties of the presence registry (SpecPresence)                      *)
(***************************************************************************)
BoundTo(c) ==
    {u \in DOMAIN connected_drivers : connected_drivers[u] = c}
        \cup {u \in DOMAIN connected_passengers : connected_passengers[u] = c}

\* C8: once a connection has ended by a read error, a peer close or a
\* malformed JSON line, no username registered with that connection's
\* socket is left in connected_drivers, connected_passengers or
\* driver_status.
C8_UnregisteredOnError ==
    \A c \in Conns :
        (conn_state[c] = "closed" /\ close_cause[c] \in CloseCauses) =>
            /\ BoundTo(c) = {}
            /\ \A u \in DOMAIN driver_status :
                  u \in DOMAIN connected_drivers => connected_drivers[u] # c

\* C9: whenever no handler is in the middle of a request, every key of
\* driver_status is a key of connected_drivers.
C9_StatusOnlyForConnected ==
    (\A c \in Conns : pc[c] = "idle") =>
        DOMAIN driver_status \subseteq DOMAIN connected_drivers

\* C10: no username is a key of both connected_drivers and
\* connected_passengers.
C10_OneRegistry ==
    DOMAIN connected_drivers \cap DOMAIN connected_passengers = {}

\* d1 is logged in as a driver after an update_profile that asked for the
\* passenger role was answered success, p1 is logged in as a passenger, and
\* a connection has gone through disconnect.
C10_Witness ==
    /\ "d1" \in DOMAIN connected_drivers
    /\ "p1" \in DOMAIN connected_passengers
    /\ RowOf(users, "d1").area = "Verdun"
    /\ RowOf(users, "d1").role = "driver"
    /\ \E c \in Conns : close_cause[c] = "disconnect"


\* A set_status for uname that finds it out of connected_drivers
SetStatusRefused(c, uname) ==
    /\ response' = [conn |-> c, re |-> "set_status", status |-> "error",
                    ride_id |-> 0,
                    rq |-> [action |-> "set_status", uname |-> uname]]
    /\ pc'[c] = "idle"
    /\ driver_status' = driver_status

InFlight == {c \in Conns : pc[c] # "idle"}

\* This step took a request line off connection c
Served(c) ==
    /\ pc[c] = "idle"
    /\ requests' = requests + 1
    /\ \/ pc'[c] # "idle"
       \/ answered' = answered + 1 /\ response'.conn = c
       \/ conn_state'[c] # conn_state[c]

\* C12: every request line that was taken off a connection has been
\* answered with one response, or its handler is still running.
C12_EveryLineAnswered == requests = answered + Cardinality(InFlight)

\* C13: a request without a required key is answered with a status error
\* response and its connection stays as it was.
C13_MissingFieldAnswered ==
    [][\A c \in PresenceConns, a \in SubscriptedActions :
          KeyErrorRequest(c, a) =>
              /\ response'.conn = c
              /\ response'.status = "error"
              /\ answered' = answered + 1
              /\ conn_state'[c] = conn_state[c]]_vars

\* C14: once a connection has processed a disconnect, no further request
\* line of that connection is processed.
C14_NothingAfterDisconnect ==
    [][\A c \in PresenceConns : conn_state[c] = "draining" => ~Served(c)]_vars

C15_BadLineEndsConnection ==
    \A c \in PresenceConns :
        (close_cause'[c] = "bad_json" /\ close_cause[c] # "bad_json") =>
            /\ conn_state'[c] = "closed"
            /\ response' = response
            /\ answered' = answered
            /\ requests' = requests
            /\ UNCHANGED << store, presence, pushes >>

C15_ClosedStaysClosed ==
    \A c \in PresenceConns :
        conn_state[c] = "closed" =>
            /\ ~Served(c)
            /\ conn_state'[c] = "closed"
            /\ pc'[c] = pc[c]

C15_OthersServed ==
    \A c \in PresenceConns, c2 \in PresenceConns :
        (close_cause[c] = "bad_json" /\ c2 # c /\ Ready(c2))
            => ENABLED GetProfile(c2, "d1")

C16_AcceptedPush ==
    [][\A c \in Conns :
          (pc[c] = "accept_notify" /\ pc'[c] = "idle") =>
              LET r == local[c].ride_id
              IN  PushCountIn(pushes', "ride_accepted", r) =
                      PushCountIn(pushes, "ride_accepted", r)
                        + (IF rides[r].passenger_username
                                \in DOMAIN connected_passengers
                             THEN 1 ELSE 0)]_vars

Taken(r) == rides[r].status \in {"accepted", "completed"}

\* C17 as claimed: driver_username, driver_ip and driver_port are set
\* exactly in the rides that are accepted or completed.
C17_DriverFieldsIffTaken ==
    \A r \in RideIds :
        IF Taken(r)
          THEN /\ rides[r].driver_username # None
               /\ rides[r].driver_ip # None
               /\ rides[r].driver_port # None
          ELSE /\ rides[r].driver_username = None
               /\ rides[r].driver_ip = None
               /\ rides[r].driver_port = None

\* C17 amended: a ride that is neither accepted nor completed has none of
\* the three driver fields set, and an accepted or completed ride has
\* exactly the driver_username, driver_ip and driver_port of the
\* accept_ride request that took it, whether or not that request carried an
\* ip and a port.
C17_DriverFields ==
    \A r \in RideIds :
        IF Taken(r)
          THEN \E i \in AcceptsOf(r) :
                  /\ \A j \in AcceptsOf(r) : j = i
                  /\ rides[r].driver_username = accept_ok[i].username
                  /\ rides[r].driver_ip = accept_ok[i].driver_ip
                  /\ rides[r].driver_port = accept_ok[i].driver_port
          ELSE /\ rides[r].driver_username = None
               /\ rides[r].driver_ip = None
               /\ rides[r].driver_port = None

\* Ride 1 was declined and keeps no driver; ride 2 was accepted by d1 with
\* a request that carried neither ip nor port.
C17_Witness ==
    /\ Len(rides) = 2
    /\ rides[1].status = "declined"
    /\ rides[1].driver_username = None
    /\ rides[2].status = "accepted"
    /\ rides[2].driver_username = "d1"
    /\ rides[2].driver_ip = None


(***************************************************************************)
(* Properties of scheduled rides (SpecSched)                               *)
(***************************************************************************)
\* The step writes the response of connection c to a request of this kind
Answers(c, action) ==
    /\ answered' = answered + 1
    /\ response'.conn = c
    /\ response'.re = action

\* What the step handed to safe_send for a peer: nothing, or one push
NoPush == pushes' = pushes

OnePush(action, registry, username, ride_id, status) ==
    /\ username \in DOMAIN registry
    /\ pushes' = Sent(pushes, SchedPush(action, registry[username], username,
                                        ride_id, status))

\* C18: a driver_accept_scheduled_ride or driver_decline_scheduled_ride
\* changes the status of a scheduled ride only if the caller is the ride's
\* driver and the status is "scheduled" at that moment.
C18_OnlyFromScheduled ==
    [][\A c \in Conns :
          (/\ pc[c] = "scheduled_update"
           /\ local[c].action \in {"driver_accept_scheduled_ride",
                                   "driver_decline_scheduled_ride"}
           /\ pc'[c] = "idle"
           /\ response'.status = "success")
            => /\ scheduled_rides[local[c].ride_id].driver_username
                    = local[c].username
               /\ scheduled_rides[local[c].ride_id].status = "scheduled"]_vars

\* C19: a passenger_cancel_scheduled_ride is answered success exactly when
\* the caller is the passenger_username of the ride; it then sets the
\* status to canceled whatever it was and sends one scheduled_ride_updated
\* push to the ride's driver if the driver is in connected_drivers.  Any
\* other cancel is answered error and changes no row and sends no push.
C19_Cancel ==
    [][\A c \in Conns :
          Answers(c, "passenger_cancel_scheduled_ride") =>
              LET rq == response'.rq
                  r == rq.ride_id
                  known == rq.id_kind = "int" /\ r \in ScheduledIds
              IN  IF known /\ scheduled_rides[r].passenger_username = rq.username
                    THEN /\ response'.status = "success"
                         /\ scheduled_rides' =
                                [scheduled_rides EXCEPT ![r] =
                                    [@ EXCEPT !.status = "canceled"]]
                         /\ IF scheduled_rides[r].driver_username
                                  \in DOMAIN connected_drivers
                              THEN OnePush("scheduled_ride_updated",
                                           connected_drivers,
                                           scheduled_rides[r].driver_username,
                                           r, "canceled")
                              ELSE NoPush
                    ELSE /\ response'.status = "error"
                         /\ scheduled_rides' = scheduled_rides
                         /\ NoPush]_vars

\* p1 has cancelled ride 1 for the second time, so from a status that was
\* not "scheduled", and the connected driver was sent the push both times.
C19_Witness ==
    /\ response.re = "passenger_cancel_scheduled_ride"
    /\ response.status = "success"
    /\ response.rq.username = "p1"
    /\ scheduled_rides[1].status = "canceled"
    /\ \E m \in DOMAIN pushes :
          /\ m.action = "scheduled_ride_updated"
          /\ m.username = "d1"
          /\ m.status = "canceled"
          /\ pushes[m] = 2

\* C20: create_scheduled_ride appends a row with status scheduled and
\* sends scheduled_ride_created to the driver if the driver is in
\* connected_drivers exactly when the chosen driver is a schedule candidate
\* for the area, the weekday of the date and the time; any other request
\* is answered error and adds no row and sends no push.  driver_status and
\* connected_drivers do not enter the decision.
C20_ScheduledCreate ==
    [][\A c \in Conns :
          Answers(c, "create_scheduled_ride") =>
              LET rq == response'.rq
                  sec == time_to_seconds(rq.time)
                  r == Len(scheduled_rides) + 1
              IN  IF /\ rq.driver_username # None
                     /\ rq.date.kind = "iso"
                     /\ sec # TimeError
                     /\ IsCandidate(rq.driver_username, rq.area,
                                    rq.date.weekday, sec)
                    THEN /\ response'.status = "success"
                         /\ Len(scheduled_rides') = r
                         /\ SubSeq(scheduled_rides', 1, r - 1) = scheduled_rides
                         /\ scheduled_rides'[r].status = "scheduled"
                         /\ scheduled_rides'[r].driver_username = rq.driver_username
                         /\ scheduled_rides'[r].passenger_username = rq.passenger_username
                         /\ IF rq.driver_username \in DOMAIN connected_drivers
                              THEN OnePush("scheduled_ride_created",
                                           connected_drivers,
                                           rq.driver_username, r, "scheduled")
                              ELSE NoPush
                    ELSE /\ response'.status = "error"
                         /\ scheduled_rides' = scheduled_rides
                         /\ NoPush]_vars

\* d1 is connected and on do-not-disturb, and was booked and told so.
C20_Witness ==
    /\ response.re = "create_scheduled_ride"
    /\ response.status = "success"
    /\ response.rq.driver_username = "d1"
    /\ "d1" \in DOMAIN connected_drivers
    /\ DictGet(driver_status, "d1", "available") = "dnd"
    /\ scheduled_rides[response.ride_id].status = "scheduled"
    /\ \E m \in DOMAIN pushes :
          m.action = "scheduled_ride_created" /\ m.username = "d1"


(***************************************************************************)
(* Properties of login and set_status (SpecLogin)                          *)
(***************************************************************************)
\* C21: a set_status for a username that is a key of connected_drivers
\* when the handler looks goes on to store available or dnd (any other
\* value as available) for that username and nothing else, and answers
\* success; a set_status for any other username answers error and leaves
\* driver_status as it is.
C21_SetStatus ==
    [][\A c \in PresenceConns :
          /\ \A v \in {"dnd", "busy"} :
                (pc[c] = "idle" /\ SetStatus(c, "d1", v)) =>
                    IF "d1" \in DOMAIN connected_drivers
                      THEN /\ pc'[c] = "set_status_write"
                           /\ local'[c].uname = "d1"
                           /\ local'[c].status_value =
                                (IF v = "dnd" THEN "dnd" ELSE "available")
                           /\ driver_status' = driver_status
                      ELSE /\ pc'[c] = "idle"
                           /\ response'.conn = c
                           /\ response'.re = "set_status"
                           /\ response'.status = "error"
                           /\ driver_status' = driver_status
          /\ (pc[c] = "set_status_write" /\ pc'[c] = "idle") =>
                /\ response'.conn = c
                /\ response'.re = "set_status"
                /\ response'.status = "success"
                /\ DOMAIN driver_status' =
                        DOMAIN driver_status \cup {local[c].uname}
                /\ driver_status'[local[c].uname] = local[c].status_value
                /\ \A u \in DOMAIN driver_status \ {local[c].uname} :
                        driver_status'[u] = driver_status[u]]_vars

\* The last thing that happened is a set_status for d1 that was answered
\* success, and d1's status is available: the request's "busy" was stored
\* as available.
C21_Witness ==
    /\ response.re = "set_status"
    /\ response.status = "success"
    /\ "d1" \in DOMAIN connected_drivers
    /\ "d1" \in DOMAIN driver_status
    /\ driver_status["d1"] = "available"

\* C22: when the login of a driver is answered success and the driver is
\* still a key of connected_drivers, its status is available.
C22_AvailableAfterLogin ==
    [][\A c \in PresenceConns :
          (pc[c] = "login_status" /\ pc'[c] = "idle"
              /\ local[c].uname \in DOMAIN connected_drivers')
            => /\ local[c].uname \in DOMAIN driver_status'
               /\ driver_status'[local[c].uname] = "available"]_vars

\* A push sent by the step went to the socket connected_drivers held for
\* its username when the step began
ToRegisteredDriver ==
    pushes' = pushes
      \/ \E m \in DOMAIN pushes' :
            /\ pushes' = Sent(pushes, m)
            /\ m.username \in DOMAIN connected_drivers
            /\ m.to = connected_drivers[m.username]

C24_BadLogin ==
    [][\A c \in PresenceConns, u \in LoginNames, pw \in Passwords :
          (/\ pc[c] = "idle"
           /\ ~(u = "d1" /\ pw = "pw")
           /\ Login(c, u, pw))
            => /\ response'.conn = c
               /\ response'.re = "login"
               /\ response'.status = "error"
               /\ presence' = presence
               /\ conn_state' = conn_state
               /\ pc'[c] = "idle"]_vars

\* d1 is logged in on c1, and a later login on c1 with bad credentials was
\* answered error: c1 is open and still d1's connection.
C24_Witness ==
    /\ response.conn = "c1"
    /\ response.re = "login"
    /\ response.status = "error"
    /\ conn_state["c1"] = "connected"
    /\ "d1" \in DOMAIN connected_drivers
    /\ connected_drivers["d1"] = "c1"
    /\ "d1" \in DOMAIN driver_status


(***************************************************************************)
(* Properties of a push that cannot be written (SpecAccept)                *)
(***************************************************************************)
\* The step handed safe_send a push whose write failed
FailedPush ==
    \E m \in DOMAIN pushes' : pushes' = Sent(pushes, m) /\ ~m.written

RideStatusAfter(label) ==
    CASE label = "accept_notify" -> "accepted"
      [] label = "complete_notify" -> "completed"
      [] label = "decline_notify" -> "declined"

DriverEvent(m) ==
    \/ m.action \in {"new_ride", "scheduled_ride_created"}
    \/ m.action = "scheduled_ride_updated" /\ m.status = "canceled"

\* The step wrote no push, or one push to the socket the registry of the
\* push's role held for its username
RoleScoped ==
    pushes' = pushes
      \/ \E m \in DOMAIN pushes' :
            /\ pushes' = Sent(pushes, m)
            /\ IF DriverEvent(m)
                 THEN /\ m.username \in DOMAIN connected_drivers
                      /\ m.to = connected_drivers[m.username]
                 ELSE /\ m.username \in DOMAIN connected_passengers
                      /\ m.to = connected_passengers[m.username]

\* The user a handler at this label is about to push to, and whether that
\* user has an entry in the registry of its role
PushTargetPresent(c) ==
    IF pc[c] = "scheduled_update"
      THEN IF local[c].action = "passenger_cancel_scheduled_ride"
             THEN scheduled_rides[local[c].ride_id].driver_username
                      \in DOMAIN connected_drivers
             ELSE scheduled_rides[local[c].ride_id].passenger_username
                      \in DOMAIN connected_passengers
      ELSE rides[local[c].ride_id].passenger_username
              \in DOMAIN connected_passengers

PushLabels ==
    {"accept_notify", "complete_notify", "decline_notify", "scheduled_update"}

\* C26: every push is written to the socket that the registry of its role
\* holds for the target username: new_ride, scheduled_ride_created and the
\* canceled scheduled_ride_updated to an entry of connected_drivers, the
\* others to an entry of connected_passengers.  A push site writes exactly
\* when the target has such an entry, and the caller is answered success
\* either way.
C26_RoleScoped ==
    [][/\ RoleScoped
       /\ \A c \in Conns :
             (pc[c] \in PushLabels /\ pc'[c] = "idle") =>
                 /\ PushTargetPresent(c) <=> pushes' # pushes
                 /\ response'.conn = c
                 /\ response'.status = "success"
       /\ \A c \in Conns :
             (Answers(c, "create_scheduled_ride")
                 /\ response'.status = "success") =>
                 (response'.rq.driver_username \in DOMAIN connected_drivers
                     <=> pushes' # pushes)
       /\ \A r \in 1..Len(notifier) :
             (notifier[r].pc = "send" /\ notifier'[r] # notifier[r]) =>
                 /\ Head(notifier[r].drivers) \in DOMAIN connected_drivers
                        <=> pushes' # pushes
                 /\ response' = response]_vars

\* d1 and p1 are both logged in and each kind of socket has been written
\* to: a new_ride push went to d1's and a ride_accepted push to p1's.
C26_Witness ==
    /\ \E m \in DOMAIN pushes :
          m.action = "new_ride" /\ m.username = "d1" /\ m.to = "c1"
    /\ \E m \in DOMAIN pushes :
          m.action = "ride_accepted" /\ m.username = "p1" /\ m.to = "c3"

\* C27: the last response written has a status key and no action key and
\* is what the listener takes as the answer to the waiting request; every
\* push written has an action key that names one of the six events and is
\* not taken as an answer, the scheduled_ride_updated push with its status
\* key included.
C27_Discriminator ==
    /\ response.re # None =>
          /\ "status" \in ResponseFields(response)
          /\ "action" \notin ResponseFields(response)
          /\ is_response(ResponseFields(response))
    /\ \A m \in DOMAIN pushes :
          /\ m.action \in PushEvents
          /\ "action" \in PushFields(m)
          /\ ~is_response(PushFields(m))

\* p1 was sent a scheduled_ride_updated push, which has a status key, and
\* a response has been written.
C27_Witness ==
    /\ response.re # None
    /\ \E m \in DOMAIN pushes :
          /\ m.action = "scheduled_ride_updated"
          /\ "status" \in PushFields(m)
          /\ m.username = "p1"


(***************************************************************************)
(* Properties of the notifier (SpecNotify)                                 *)
(***************************************************************************)
\* C28: the drivers a notifier thread got from the matcher contain no
\* username twice, and no driver is sent more than one new_ride push for a
\* ride.
C28_NoDoubleNotify ==
    /\ \A r \in 1..Len(notifier) :
          \A i, j \in 1..Len(notifier[r].drivers) :
              notifier[r].drivers[i] = notifier[r].drivers[j] => i = j
    /\ \A m \in DOMAIN pushes : m.action = "new_ride" => pushes[m] <= 1


(***************************************************************************)
(* The pushes of one ride, end to end (SpecPush)                           *)
(***************************************************************************)
\* C29: while p1 is connected, no ride has more ride_completed pushes than
\* ride_accepted pushes or more than one of either, so ride_completed
\* never comes first; once d1's accept_ride of a ride is answered p1 has
\* been sent its ride_accepted, and once d1's complete_ride is answered p1
\* has been sent ride_accepted and ride_completed, each once.
C29_AcceptedThenCompleted ==
    "p1" \in DOMAIN connected_passengers =>
        \A r \in RideIds :
            /\ PushCount("ride_completed", r) <= PushCount("ride_accepted", r)
            /\ PushCount("ride_accepted", r) <= 1
            /\ (rides[r].status = "accepted" /\ pc["c1"] = "idle") =>
                  /\ PushCount("ride_accepted", r) = 1
                  /\ PushCount("ride_completed", r) = 0
            /\ (rides[r].status = "completed" /\ pc["c1"] = "idle") =>
                  /\ PushCount("ride_accepted", r) = 1
                  /\ PushCount("ride_completed", r) = 1

\* d1 accepted and completed ride 1 with p1 connected on c3 all along, and
\* p1's socket was written ride_accepted and ride_completed for it.
C29_Witness ==
    /\ "p1" \in DOMAIN connected_passengers
    /\ Len(rides) >= 1
    /\ rides[1].status = "completed"
    /\ response.re = "complete_ride"
    /\ response.status = "success"
    /\ \E m \in DOMAIN pushes :
          m.action = "ride_accepted" /\ m.ride_id = 1 /\ m.to = "c3"
    /\ \E m \in DOMAIN pushes :
          m.action = "ride_completed" /\ m.ride_id = 1 /\ m.to = "c3"


(***************************************************************************)
(* Properties of the match window (SpecWindow)                             *)
(***************************************************************************)
\* max(0, target-600) <= s <= min(86399, target+600)
InWindow600(s, target) ==
    /\ (IF target - 600 < 0 THEN 0 ELSE target - 600) <= s
    /\ s <= (IF target + 600 > 86399 THEN 86399 ELSE target + 600)

\* d1's schedule has an entry for the weekday with a time in the window
HasEntryInWindow(weekday, target) ==
    \E j \in 1..Len(RowOf(users, "d1").weekly_schedule) :
        LET item == RowOf(users, "d1").weekly_schedule[j]
        IN  /\ weekday_to_int(item.day) = weekday
            /\ time_to_seconds(item.time) # TimeError
            /\ InWindow600(time_to_seconds(item.time), target)

\* C30: d1, a driver of the area, is among the schedule candidates of
\* (weekday, target) exactly when its weekly_schedule has an entry for the
\* weekday whose time is in [max(0, target-600), min(86399, target+600)],
\* and create_ride finds the connected and available d1 exactly then; an
\* entry at 28800 makes d1 a candidate for 29100 and not for 30000, and
\* the window of 86399 is [85799, 86399].
C30_Window ==
    /\ \A t \in TargetTimes, wd \in {0, 1} :
          "d1" \in Range(get_available_drivers("Hamra", wd, time_to_seconds(t)))
              <=> HasEntryInWindow(wd, time_to_seconds(t))
    /\ response.re = "create_ride" =>
          (response.status = "success"
              <=> HasEntryInWindow(response.rq.weekday,
                                   time_to_seconds(response.rq.time)))
    /\ RowOf(users, "d1").weekly_schedule = << SchedItem("Monday", Seconds(28800)) >> =>
          /\ "d1" \in Range(get_available_drivers("Hamra", 0, 29100))
          /\ "d1" \notin Range(get_available_drivers("Hamra", 0, 30000))
    /\ WindowLower(86399) = 85799
    /\ WindowUpper(86399) = 86399

\* With d1's entry at 28800, a ride for 29400 (the last second of the
\* window) was created and a request for 29401 was then refused.
C30_Witness ==
    /\ RowOf(users, "d1").weekly_schedule = << SchedItem("Monday", Seconds(28800)) >>
    /\ Len(rides) = 1
    /\ rides[1].time = 29400
    /\ response.re = "create_ride"
    /\ response.status = "error"
    /\ response.rq.weekday = 0
    /\ response.rq.time = Seconds(29401)


(***************************************************************************)
(* Properties of the ride history (SpecHistory)                            *)
(***************************************************************************)
\* The response on the wire is the answer to a history request
IsHistory(r) == r.re = "get_ride_history" /\ r.status = "success"

\* score is what the newest rating of the ride from rater to ratee holds,
\* and none when there is no such rating
NewestScore(ride_id, rater, ratee, score) ==
    IF \E i \in 1..Len(ratings) :
            /\ ratings[i].ride_id = ride_id
            /\ ratings[i].rater_username = rater
            /\ ratings[i].ratee_username = ratee
      THEN \E i \in 1..Len(ratings) :
            /\ ratings[i].ride_id = ride_id
            /\ ratings[i].rater_username = rater
            /\ ratings[i].ratee_username = ratee
            /\ ratings[i].score = score
            /\ \A j \in (i + 1)..Len(ratings) :
                    ~ /\ ratings[j].ride_id = ride_id
                      /\ ratings[j].rater_username = rater
                      /\ ratings[j].ratee_username = ratee
      ELSE score = NoScore

\* C31: for every ride in the answer of get_ride_history(user, role),
\* my_rating is the score of the newest rating of that ride from the user to
\* the counterpart and their_rating that of the newest one from the
\* counterpart to the user, each none when there is no such rating.
C31_LatestPerDirection ==
    IsHistory(response) =>
        \A id \in DOMAIN response.rq.rides :
            LET row == response.rq.rides[id]
                user == response.rq.username
                other == IF response.rq.role = "passenger"
                           THEN row.driver_username
                           ELSE row.passenger_username
            IN  /\ NewestScore(id, user, other, row.my_rating)
                /\ NewestScore(id, other, user, row.their_rating)


(***************************************************************************)
(* Properties of a ride's row over its life (SpecAccept)                   *)
(***************************************************************************)
RideTransitions ==
    { << "pending", "accepted" >>, << "pending", "declined" >>,
      << "accepted", "completed" >> }

\* C32: a ride's status only moves pending->accepted, pending->declined or
\* accepted->completed, so a declined or completed ride is never accepted
\* or completed afterwards; its passenger, area, time and weekday never
\* change, and no row of the rides table is ever deleted.
C32_StatusTransitions ==
    [][ /\ Len(rides') >= Len(rides)
        /\ \A r \in RideIds :
            /\ \/ rides'[r].status = rides[r].status
               \/ << rides[r].status, rides'[r].status >> \in RideTransitions
            /\ rides'[r].passenger_username = rides[r].passenger_username
            /\ rides'[r].area = rides[r].area
            /\ rides'[r].time = rides[r].time
            /\ rides'[r].weekday = rides[r].weekday
            /\ rides[r].status \in {"declined", "completed"}
                    => /\ rides'[r] = rides[r]
                       /\ AcceptsOf(r)' = AcceptsOf(r) ]_vars

\* d1 declined ride 1, and an accept_ride on it was answered with an error
C32_Witness ==
    /\ Len(rides) >= 1
    /\ rides[1].status = "declined"
    /\ response.re = "accept_ride"
    /\ response.status = "error"
    /\ response.ride_id = 1


(***************************************************************************)
(* Properties of the bytes on a socket (SpecWire)                          *)
(***************************************************************************)
\* C33: the bytes of two messages written to the same connection are never
\* interleaved: on every socket each part of a line but the first follows
\* the part before it of the same writer, and each part but the last is
\* followed by the next one, unless it is the last thing written so far.
C33_LinesContiguous ==
    \A sock \in Conns :
        \A i \in 1..Len(wire[sock]) :
            LET p == wire[sock][i]
            IN  /\ p.part > 1 =>
                    /\ i > 1
                    /\ wire[sock][i - 1] = Piece(p.from, p.part - 1)
                /\ (p.part < MaxSends /\ i < Len(wire[sock])) =>
                    wire[sock][i + 1] = Piece(p.from, p.part + 1)


(***************************************************************************)
(* Properties of disconnect (SpecLogin)                                    *)
(***************************************************************************)
\* C34: a disconnect request removes a presence entry only when it comes in
\* on the connection whose handle is stored for the username: a step of the
\* disconnect handler of a connection other than the one d1 is registered
\* with leaves d1's entry in place.
C34_OnlyOwnDisconnect ==
    [][ \A c \in PresenceConns :
            ( /\ "d1" \in DOMAIN connected_drivers
              /\ connected_drivers["d1"] # c
              /\ pc[c] = "idle"
              /\ pc'[c] = "disconnect_rest" )
            => /\ "d1" \in DOMAIN connected_drivers'
               /\ connected_drivers'["d1"] = connected_drivers["d1"] ]_vars


(***************************************************************************)
(* Properties of the notifier thread against accept and decline (SpecRide) *)
(***************************************************************************)
\* C35: a new_ride push for ride r is never sent after r has left status
\* pending: every step that hands one more new_ride push of r to safe_send
\* starts in a state in which r is pending.
C35_OnlyPendingOffered ==
    [][ \A r \in RideIds :
            PushCountIn(pushes', "new_ride", r) > PushCount("new_ride", r)
                => rides[r].status = "pending" ]_vars


(***************************************************************************)
(* Properties of preferred_only rides (SpecPreferred)                      *)
(***************************************************************************)
\* C36: a ride created with preferred_only for target driver T can only be
\* accepted by T: whenever such a ride is no longer pending, the driver in
\* its row is the target of the request it was created for.
C36_OnlyTargetAccepts ==
    \A r \in RideIds :
        ( /\ notifier[r].preferred_only
          /\ notifier[r].target_driver # None
          /\ rides[r].status = "accepted" )
        => rides[r].driver_username = notifier[r].target_driver


(***************************************************************************)
(* Properties of the order of commit and push (SpecPush)                   *)
(***************************************************************************)
\* The step hands one more push of this kind for ride r to safe_send
Emits(action, r) == PushCountIn(pushes', action, r) > PushCount(action, r)

\* C37: a ride_accepted, ride_declined or ride_completed push for ride r is
\* emitted only when r's row already holds that status (for ride_accepted:
\* the accept is committed and the row is accepted, or completed since),
\* and a new_ride push only when r's row exists.
C37_CommitBeforePush ==
    [][ \A r \in 1..MaxRides :
            /\ Emits("new_ride", r) => r \in RideIds
            /\ Emits("ride_accepted", r) =>
                    /\ r \in RideIds
                    /\ AcceptsOf(r) # {}
                    /\ rides[r].status \in {"accepted", "completed"}
            /\ Emits("ride_declined", r) =>
                    r \in RideIds /\ rides[r].status = "declined"
            /\ Emits("ride_completed", r) =>
                    r \in RideIds /\ rides[r].status = "completed" ]_vars

\* Ride 1 was offered, accepted and completed and ride 2 declined, each with
\* its push
C37_Witness ==
    /\ PushCount("new_ride", 1) > 0
    /\ PushCount("ride_accepted", 1) > 0
    /\ PushCount("ride_completed", 1) > 0
    /\ PushCount("ride_declined", 2) > 0


(***************************************************************************)
(* Properties of accept against decline (SpecAccept)                       *)
(***************************************************************************)
\* C38: for every ride at most one ride_accepted push and at most one
\* ride_declined push are ever emitted, and never both for the same ride,
\* however the accept_ride and decline_ride requests of the connections
\* interleave.
C38_OneOutcomePushed ==
    \A r \in 1..MaxRides :
        /\ PushCount("ride_accepted", r) <= 1
        /\ PushCount("ride_declined", r) <= 1
        /\ PushCount("ride_accepted", r) + PushCount("ride_declined", r) <= 1

\* p1 was told that ride 1 is accepted, and a decline_ride on ride 1 that
\* came afterwards was answered with an error and pushed nothing
C38_Witness ==
    /\ PushCount("ride_accepted", 1) = 1
    /\ PushCount("ride_declined", 1) = 0
    /\ response.re = "decline_ride"
    /\ response.status = "error"
    /\ response.ride_id = 1


(***************************************************************************)
(* Properties of the matcher against stored schedules (SpecSchedule)       *)
(***************************************************************************)
\* C39: create_ride and search_scheduled_drivers always answer the caller
\* whatever schedule another user stored: every request is answered and
\* leaves the connection open, and a driver whose schedule cannot be read
\* is skipped, so that a ride for Monday 08:05 in Hamra is created and a
\* search for a Monday there finds d1.
C39_BadScheduleSkipped ==
    [][ requests' = requests + 1 =>
            /\ answered' = answered + 1
            /\ conn_state' = conn_state
            /\ ( /\ response'.re = "create_ride"
                 /\ time_to_seconds(response'.rq.time) # TimeError )
               => response'.status = "success"
            /\ ( /\ response'.re = "search_scheduled_drivers"
                 /\ response'.rq.date = DateMon )
               => /\ response'.status = "success"
                  /\ "d1" \in response'.rq.drivers ]_vars


(***************************************************************************)
(* Properties of the client's request/response pairing (SpecClient)        *)
(***************************************************************************)
\* C40: _send_and_wait returns the server's response to the request it
\* sent: a call that returns a response of the server returns the one that
\* answers its own payload.
C40_OwnResponse ==
    \A t \in Threads :
        (caller[t].pc = "idle" /\ caller[t].result.kind = "response")
            => caller[t].result.re = caller[t].payload

====
